---- MODULE Spec2Model ----
(***************************************************************************)
(* A model of the XCM asset algebra of the polkadot repository:            *)
(*   xcm/src/v1/multiasset.rs   AssetInstance, AssetId, Fungibility,       *)
(*                              MultiAsset, MultiAssets, WildMultiAsset,   *)
(*                              MultiAssetFilter                           *)
(*   xcm/src/v0/multi_asset.rs  the v0 MultiAsset enum and its contains    *)
(*                                                                         *)
(* Values are records tagged the way the Rust enums are.  Orderings are    *)
(* the derived (variant index, then fields) orderings of the Rust types,   *)
(* returned as -1 (Less), 0 (Equal), 1 (Greater).                          *)
(***************************************************************************)
EXTENDS Integers, Sequences, FiniteSets, TLC

VARIABLES
    assets,   \* the inner Vec<MultiAsset> of the MultiAssets value in hand
    args,     \* the arguments of a pending call to a pure function
    ret       \* the record of the last call: its name, inputs and result

vars == <<assets, args, ret>>

(***************************************************************************)
(* Bounds.                                                                 *)
(***************************************************************************)
\* The largest amount: stands for u128::MAX, scaled so that sums saturate.
AmountMax == 2
\* The longest Vec<MultiAsset> handed to a constructor, and the longest
\* collection push may grow.
MaxLen == 3

(***************************************************************************)
(* Orderings of the primitive types.                                       *)
(***************************************************************************)
Less == -1
Equal == 0
Greater == 1

CmpInt(a, b) == IF a < b THEN Less ELSE IF a > b THEN Greater ELSE Equal

\* Ord for Vec<u8> and for sequences in general: lexicographic, a proper
\* prefix is Less.
RECURSIVE CmpSeq(_, _)
CmpSeq(s, t) ==
    IF s = <<>> /\ t = <<>> THEN Equal
    ELSE IF s = <<>> THEN Less
    ELSE IF t = <<>> THEN Greater
    ELSE IF Head(s) # Head(t) THEN CmpInt(Head(s), Head(t))
    ELSE CmpSeq(Tail(s), Tail(t))

\* u128 addition that wraps where the code saturates
wrapping_add(a, b) == (a + b) % (AmountMax + 1)

\* u128::saturating_add, on the scaled width.
saturating_add(a, b) == IF a + b > AmountMax THEN AmountMax ELSE a + b

(***************************************************************************)
(* AssetInstance.                                                          *)
(***************************************************************************)
Undefined == [tag |-> "Undefined"]
Index(n) == [tag |-> "Index", n |-> n]
Blob(b) == [tag |-> "Blob", bytes |-> b]

\* The declaration order of the variants, which the derived Ord follows.
AssetInstanceRank(i) ==
    CASE i.tag = "Undefined" -> 0
      [] i.tag = "Index" -> 1
      [] i.tag = "Blob" -> 6

CmpAssetInstance(i, j) ==
    IF AssetInstanceRank(i) # AssetInstanceRank(j)
    THEN CmpInt(AssetInstanceRank(i), AssetInstanceRank(j))
    ELSE CASE i.tag = "Undefined" -> Equal
           [] i.tag = "Index" -> CmpInt(i.n, j.n)
           [] i.tag = "Blob" -> CmpSeq(i.bytes, j.bytes)

(***************************************************************************)
(* MultiLocation (v1): an ancestor count and an interior path.  Only its   *)
(* equality and its derived ordering are used by the asset types.          *)
(***************************************************************************)
MultiLocation(p, i) == [parents |-> p, interior |-> i]
Here == MultiLocation(0, <<>>)
ParentLoc == MultiLocation(1, <<>>)

\* The interior junctions the model uses, in their declaration order.
Parachain(n) == [tag |-> "Parachain", index |-> n]
OnlyChild == [tag |-> "OnlyChild"]

JunctionRank(j) ==
    CASE j.tag = "Parachain" -> 0
      [] j.tag = "OnlyChild" -> 7

CmpJunction(j, k) ==
    IF JunctionRank(j) # JunctionRank(k)
    THEN CmpInt(JunctionRank(j), JunctionRank(k))
    ELSE IF j.tag = "Parachain" THEN CmpInt(j.index, k.index)
    ELSE Equal

\* The interior as an ordered sequence of junctions.
RECURSIVE CmpJunctions(_, _)
CmpJunctions(s, t) ==
    IF s = <<>> /\ t = <<>> THEN Equal
    ELSE IF s = <<>> THEN Less
    ELSE IF t = <<>> THEN Greater
    ELSE IF CmpJunction(Head(s), Head(t)) # Equal
         THEN CmpJunction(Head(s), Head(t))
    ELSE CmpJunctions(Tail(s), Tail(t))

CmpMultiLocation(l, m) ==
    IF l.parents # m.parents THEN CmpInt(l.parents, m.parents)
    ELSE CmpJunctions(l.interior, m.interior)

(***************************************************************************)
(* AssetId.                                                                *)
(***************************************************************************)
Concrete(l) == [kind |-> "Concrete", loc |-> l]
Abstract(b) == [kind |-> "Abstract", bytes |-> b]

CmpAssetId(x, y) ==
    IF x.kind # y.kind THEN (IF x.kind = "Concrete" THEN Less ELSE Greater)
    ELSE IF x.kind = "Concrete" THEN CmpMultiLocation(x.loc, y.loc)
    ELSE CmpSeq(x.bytes, y.bytes)

(***************************************************************************)
(* Fungibility and WildFungibility.                                        *)
(***************************************************************************)
Fungible(n) == [kind |-> "Fungible", amount |-> n]
NonFungible(i) == [kind |-> "NonFungible", instance |-> i]
WildFungible == "Fungible"
WildNonFungible == "NonFungible"

CmpFungibility(f, g) ==
    IF f.kind # g.kind THEN (IF f.kind = "Fungible" THEN Less ELSE Greater)
    ELSE IF f.kind = "Fungible" THEN CmpInt(f.amount, g.amount)
    ELSE CmpAssetInstance(f.instance, g.instance)

is_kind(f, w) == f.kind = w

(***************************************************************************)
(* MultiAsset.                                                             *)
(***************************************************************************)
MultiAsset(id, fun) == [id |-> id, fun |-> fun]

\* Ord for MultiAsset as derive(Ord) would give it: by (id, fun) alone
MultiAsset_cmp_derived(a, b) ==
    IF CmpAssetId(a.id, b.id) # Equal THEN CmpAssetId(a.id, b.id)
    ELSE CmpFungibility(a.fun, b.fun)

\* impl Ord for MultiAsset
MultiAsset_cmp(a, b) ==
    IF a.fun.kind = "Fungible" /\ b.fun.kind = "NonFungible" THEN Less
    ELSE IF a.fun.kind = "NonFungible" /\ b.fun.kind = "Fungible" THEN Greater
    ELSE IF CmpAssetId(a.id, b.id) # Equal THEN CmpAssetId(a.id, b.id)
    ELSE CmpFungibility(a.fun, b.fun)

is_non_fungible(a) == a.fun.kind = "NonFungible"

\* MultiAsset::contains, with > where the code has >=
MultiAsset_contains_strict(self, inner) ==
    /\ self.id = inner.id
    /\ \/ /\ self.fun.kind = "Fungible"
          /\ inner.fun.kind = "Fungible"
          /\ self.fun.amount > inner.fun.amount
       \/ /\ self.fun.kind = "NonFungible"
          /\ inner.fun.kind = "NonFungible"
          /\ self.fun.instance = inner.fun.instance

\* MultiAsset::contains
MultiAsset_contains(self, inner) ==
    /\ self.id = inner.id
    /\ \/ /\ self.fun.kind = "Fungible"
          /\ inner.fun.kind = "Fungible"
          /\ self.fun.amount >= inner.fun.amount
       \/ /\ self.fun.kind = "NonFungible"
          /\ inner.fun.kind = "NonFungible"
          /\ self.fun.instance = inner.fun.instance

(***************************************************************************)
(* MultiAssets.                                                            *)
(***************************************************************************)
\* Vec::sort under MultiAsset's Ord.  The ordering is total and Equal only
\* for equal values, so the sorted vector is unique; insertion gives it.
RECURSIVE Insert(_, _)
Insert(a, s) ==
    IF s = <<>> THEN <<a>>
    ELSE IF MultiAsset_cmp(a, Head(s)) = Less THEN <<a>> \o s
    ELSE <<Head(s)>> \o Insert(a, Tail(s))

RECURSIVE sort(_)
sort(s) == IF s = <<>> THEN <<>> ELSE Insert(Head(s), sort(Tail(s)))

\* The fold of From<Vec<MultiAsset>>: a is the accumulator, rest the items
\* still to come, res the output vector.
RECURSIVE FromFold(_, _, _)
FromFold(a, rest, res) ==
    IF rest = <<>> THEN Append(res, a)
    ELSE LET b == Head(rest) IN
         IF /\ a.fun.kind = "Fungible" /\ b.fun.kind = "Fungible"
            /\ a.id = b.id
         THEN FromFold(MultiAsset(a.id,
                          Fungible(saturating_add(a.fun.amount, b.fun.amount))),
                       Tail(rest), res)
         ELSE IF /\ a.fun.kind = "NonFungible" /\ b.fun.kind = "NonFungible"
                 /\ a.id = b.id /\ a.fun.instance = b.fun.instance
         THEN FromFold(MultiAsset(a.id, NonFungible(a.fun.instance)),
                       Tail(rest), res)
         ELSE FromFold(b, Tail(rest), Append(res, a))

\* From<Vec<MultiAsset>>::from without the sort
MultiAssets_from_unsorted(v) ==
    IF v = <<>> THEN <<>> ELSE FromFold(Head(v), Tail(v), <<>>)

\* From<Vec<MultiAsset>>::from without the fold that merges
MultiAssets_from_sort_only(v) == sort(v)

\* impl From<Vec<MultiAsset>> for MultiAssets
MultiAssets_from(v) ==
    IF v = <<>> THEN <<>>
    ELSE LET s == sort(v) IN FromFold(Head(s), Tail(s), <<>>)

\* The closure of the try_fold in from_sorted_and_deduplicated: Ok(b) or Err.
sorted_step(a, b) ==
    \/ CmpAssetId(a.id, b.id) = Less
    \/ /\ MultiAsset_cmp(a, b) = Less
       /\ (is_non_fungible(a) \/ is_non_fungible(b))

Ok(v) == [ok |-> TRUE, val |-> v]
Err == [ok |-> FALSE]

\* MultiAssets::from_sorted_and_deduplicated
from_sorted_and_deduplicated(r) ==
    IF r = <<>> THEN Ok(<<>>)
    ELSE IF \A i \in 1..(Len(r) - 1) : sorted_step(r[i], r[i + 1])
    THEN Ok(r)
    ELSE Err

\* MultiAssets::contains that asks the first entry only
MultiAssets_contains_first(self, inner) ==
    Len(self) > 0 /\ MultiAsset_contains(self[1], inner)

\* MultiAssets::contains
MultiAssets_contains(self, inner) ==
    \E i \in 1..Len(self) : MultiAsset_contains(self[i], inner)

\* MultiAssets::push with the merge into an existing entry left out
push_no_merge(self, a) == sort(Append(self, a))

\* MultiAssets::push: the index of the first entry with a's id, when a is
\* fungible and that entry is fungible, gets the saturating sum; otherwise
\* a is appended and the vector sorted.  The loop returns at the first
\* fungible entry among those with a's id.
push(self, a) ==
    LET hits == {i \in 1..Len(self) :
                    self[i].id = a.id /\ self[i].fun.kind = "Fungible"}
    IN  IF a.fun.kind = "Fungible" /\ hits # {}
        THEN LET i == CHOOSE k \in hits : \A j \in hits : k <= j
             IN  [self EXCEPT ![i].fun.amount =
                      saturating_add(self[i].fun.amount, a.fun.amount)]
        ELSE sort(Append(self, a))

(***************************************************************************)
(* WildMultiAsset and MultiAssetFilter.                                    *)
(***************************************************************************)
WildAll == [w |-> "All"]
AllOf(id, fun) == [w |-> "AllOf", id |-> id, fun |-> fun]
Definite(a) == [f |-> "Definite", assets |-> a]
Wild(w) == [f |-> "Wild", wild |-> w]

\* WildMultiAsset::contains with the id comparison left out
WildMultiAsset_contains_any_id(self, inner) ==
    IF self.w = "AllOf" THEN is_kind(inner.fun, self.fun) ELSE TRUE

\* WildMultiAsset::contains
WildMultiAsset_contains(self, inner) ==
    IF self.w = "AllOf"
    THEN is_kind(inner.fun, self.fun) /\ inner.id = self.id
    ELSE TRUE

\* MultiAssetFilter::contains
MultiAssetFilter_contains(self, inner) ==
    IF self.f = "Definite"
    THEN MultiAssets_contains(self.assets, inner)
    ELSE WildMultiAsset_contains(self.wild, inner)

(***************************************************************************)
(* The v0 MultiAsset enum.  Its ids are used only through equality: a      *)
(* MultiLocation is the record [junctions |-> ...] of its junctions, a     *)
(* Vec<u8> the record [bytes |-> ...].                                     *)
(***************************************************************************)
V0None == [v |-> "None"]
V0All == [v |-> "All"]
V0AllFungible == [v |-> "AllFungible"]
V0AllNonFungible == [v |-> "AllNonFungible"]
V0AllAbstractFungible(id) == [v |-> "AllAbstractFungible", id |-> id]
V0AllAbstractNonFungible(class) == [v |-> "AllAbstractNonFungible", class |-> class]
V0AllConcreteFungible(id) == [v |-> "AllConcreteFungible", id |-> id]
V0AllConcreteNonFungible(class) == [v |-> "AllConcreteNonFungible", class |-> class]
V0AbstractFungible(id, amount) ==
    [v |-> "AbstractFungible", id |-> id, amount |-> amount]
V0AbstractNonFungible(class, instance) ==
    [v |-> "AbstractNonFungible", class |-> class, instance |-> instance]
V0ConcreteFungible(id, amount) ==
    [v |-> "ConcreteFungible", id |-> id, amount |-> amount]
V0ConcreteNonFungible(class, instance) ==
    [v |-> "ConcreteNonFungible", class |-> class, instance |-> instance]

v0_is_wildcard(self) ==
    self.v \in {"All", "AllFungible", "AllNonFungible", "AllAbstractFungible",
                "AllConcreteFungible", "AllAbstractNonFungible",
                "AllConcreteNonFungible"}

v0_is_none(self) ==
    \/ self.v = "None"
    \/ self.v = "AbstractFungible" /\ self.amount = 0
    \/ self.v = "ConcreteFungible" /\ self.amount = 0

v0_is_fungible(self) ==
    self.v \in {"All", "AllFungible", "AllAbstractFungible",
                "AllConcreteFungible", "AbstractFungible", "ConcreteFungible"}

v0_is_non_fungible(self) ==
    self.v \in {"All", "AllNonFungible", "AllAbstractNonFungible",
                "AllConcreteNonFungible", "AbstractNonFungible",
                "ConcreteNonFungible"}

\* is_concrete_fungible with the comparison of the ids left out
v0_is_concrete_fungible_any_id(self, id) ==
    self.v \in {"AllFungible", "AllConcreteFungible", "ConcreteFungible"}

v0_is_concrete_fungible(self, id) ==
    \/ self.v = "AllFungible"
    \/ self.v \in {"AllConcreteFungible", "ConcreteFungible"} /\ self.id = id

v0_is_abstract_fungible(self, id) ==
    \/ self.v = "AllFungible"
    \/ self.v \in {"AllAbstractFungible", "AbstractFungible"} /\ self.id = id

v0_is_concrete_non_fungible(self, class) ==
    \/ self.v = "AllNonFungible"
    \/ /\ self.v \in {"AllConcreteNonFungible", "ConcreteNonFungible"}
       /\ self.class = class

v0_is_abstract_non_fungible(self, class) ==
    \/ self.v = "AllNonFungible"
    \/ /\ self.v \in {"AllAbstractNonFungible", "AbstractNonFungible"}
       /\ self.class = class

v0_is_all(self) == self.v = "All"

\* The match of v0 MultiAsset::contains, reached once the four early
\* returns have been passed.
v0_contains_match(self, inner) ==
    CASE self.v = "AllFungible" -> v0_is_fungible(inner)
      [] self.v = "AllNonFungible" -> v0_is_non_fungible(inner)
      [] self.v = "AllConcreteFungible" -> v0_is_concrete_fungible(inner, self.id)
      [] self.v = "AllAbstractFungible" -> v0_is_abstract_fungible(inner, self.id)
      [] self.v = "AllConcreteNonFungible" ->
            v0_is_concrete_non_fungible(inner, self.class)
      [] self.v = "AllAbstractNonFungible" ->
            v0_is_abstract_non_fungible(inner, self.class)
      [] self.v = "ConcreteFungible" ->
            /\ inner.v = "ConcreteFungible"
            /\ inner.id = self.id
            /\ self.amount >= inner.amount
      [] self.v = "AbstractFungible" ->
            /\ inner.v = "AbstractFungible"
            /\ inner.id = self.id
            /\ self.amount >= inner.amount
      [] self.v = "ConcreteNonFungible" -> self = inner
      [] self.v = "AbstractNonFungible" -> self = inner
      [] OTHER -> FALSE

\* v0 MultiAsset::contains with the test of self.is_all() moved first
v0_contains_all_first(self, inner) ==
    IF v0_is_all(self) THEN TRUE
    ELSE IF v0_is_wildcard(inner) THEN FALSE
    ELSE IF v0_is_none(inner) THEN TRUE
    ELSE IF v0_is_none(self) THEN FALSE
    ELSE v0_contains_match(self, inner)

\* v0 MultiAsset::contains
v0_contains(self, inner) ==
    IF v0_is_wildcard(inner) THEN FALSE
    ELSE IF v0_is_none(inner) THEN TRUE
    ELSE IF v0_is_all(self) THEN TRUE
    ELSE IF v0_is_none(self) THEN FALSE
    ELSE v0_contains_match(self, inner)

(***************************************************************************)
(* The values the model draws inputs from.                                 *)
(***************************************************************************)
AssetIds == {Concrete(Here), Abstract(<<>>), Abstract(<<1>>)}
Amounts == 0..AmountMax
Instances == {Undefined, Index(1)}
Fungibilities == {Fungible(n) : n \in Amounts} \cup {NonFungible(i) : i \in Instances}
MultiAssetValues == {MultiAsset(id, fun) : id \in AssetIds, fun \in Fungibilities}

\* Every Vec<MultiAsset> of at most n elements.
VecsUpTo(n) == UNION {[1..k -> MultiAssetValues] : k \in 0..n}

NoArgs == [ty |-> "none"]

(***************************************************************************)
(* The life of one MultiAssets value: constructed by new(), from() or      *)
(* from_sorted_and_deduplicated() (the Decode path), then pushed to and    *)
(* queried.                                                                *)
(***************************************************************************)
Init ==
    /\ assets = <<>>
    /\ args = NoArgs
    /\ ret = [op |-> "new"]

\* MultiAssets::from(v), replacing the fresh value.
From ==
    /\ ret.op = "new"
    /\ \E v \in VecsUpTo(MaxLen) :
        /\ assets' = MultiAssets_from(v)
        /\ ret' = [op |-> "from", input |-> v]
    /\ UNCHANGED args

\* MultiAssets::decode: from_sorted_and_deduplicated on the decoded vector;
\* on Err no value is produced.
Decode ==
    /\ ret.op = "new"
    /\ \E r \in VecsUpTo(MaxLen) :
        LET res == from_sorted_and_deduplicated(r) IN
        /\ assets' = IF res.ok THEN res.val ELSE assets
        /\ ret' = [op |-> "decode", input |-> r, ok |-> res.ok]
    /\ UNCHANGED args

Push ==
    /\ Len(assets) < MaxLen
    /\ \E a \in MultiAssetValues :
        /\ assets' = push(assets, a)
        /\ ret' = [op |-> "push", before |-> assets, a |-> a]
    /\ UNCHANGED args

Contains ==
    /\ \E x \in MultiAssetValues :
        ret' = [op |-> "contains", inner |-> x,
                val |-> MultiAssets_contains(assets, x)]
    /\ UNCHANGED <<assets, args>>

Next == From \/ Decode \/ Push \/ Contains

Spec == Init /\ [][Next]_vars

\* The lives that start with new() or from(v) and go on with pushes only.
NextPush == From \/ Push

SpecPush == Init /\ [][NextPush]_vars

(***************************************************************************)
(* Calls of the pure containment functions: the initial state draws the    *)
(* arguments of one call, the action of the function called returns.       *)
(***************************************************************************)
\* The longest collection inside a Definite filter drawn as an argument.
MaxFilterLen == 2

AbstractBytes == {<<>>, <<1>>}
V0Null == [junctions |-> <<>>]
V0X1Parent == [junctions |-> <<[tag |-> "Parent"]>>]
V0Locations == {V0Null, V0X1Parent}
V0Bytes == {[bytes |-> b] : b \in AbstractBytes}

V0MultiAssetValues ==
    {V0None, V0All, V0AllFungible, V0AllNonFungible}
    \cup {V0AllAbstractFungible(b) : b \in V0Bytes}
    \cup {V0AllAbstractNonFungible(b) : b \in V0Bytes}
    \cup {V0AllConcreteFungible(l) : l \in V0Locations}
    \cup {V0AllConcreteNonFungible(l) : l \in V0Locations}
    \cup {V0AbstractFungible(b, n) : b \in V0Bytes, n \in Amounts}
    \cup {V0AbstractNonFungible(b, i) : b \in V0Bytes, i \in Instances}
    \cup {V0ConcreteFungible(l, n) : l \in V0Locations, n \in Amounts}
    \cup {V0ConcreteNonFungible(l, i) : l \in V0Locations, i \in Instances}

WildMultiAssetValues ==
    {WildAll}
    \cup {AllOf(id, fun) : id \in AssetIds, fun \in {WildFungible, WildNonFungible}}

MultiAssetFilterValues ==
    {Definite(MultiAssets_from(v)) : v \in VecsUpTo(MaxFilterLen)}
    \cup {Wild(w) : w \in WildMultiAssetValues}

CallArgs ==
    {[ty |-> "v0", self |-> a, inner |-> b] :
        a \in V0MultiAssetValues, b \in V0MultiAssetValues}
    \cup {[ty |-> "v1", self |-> a, inner |-> b] :
        a \in MultiAssetValues, b \in MultiAssetValues}
    \cup {[ty |-> "filter", self |-> f, inner |-> b] :
        f \in MultiAssetFilterValues, b \in MultiAssetValues}
    \cup {[ty |-> "assets", self |-> [inner |-> MultiAssets_from(v)], inner |-> b] :
        v \in VecsUpTo(MaxFilterLen), b \in MultiAssetValues}
    \cup {[ty |-> "cmp", a |-> a, b |-> b, c |-> c] :
        a \in MultiAssetValues, b \in MultiAssetValues, c \in MultiAssetValues}

InitCall ==
    /\ assets = <<>>
    /\ args \in CallArgs
    /\ ret = [op |-> "none"]

\* v0 MultiAsset::contains
V0Contains ==
    /\ args.ty = "v0"
    /\ ret' = [op |-> "v0_contains", val |-> v0_contains(args.self, args.inner)]
    /\ UNCHANGED <<assets, args>>

\* v1 MultiAsset::contains
V1Contains ==
    /\ args.ty = "v1"
    /\ ret' = [op |-> "v1_contains",
               val |-> MultiAsset_contains(args.self, args.inner)]
    /\ UNCHANGED <<assets, args>>

\* v1 MultiAssetFilter::contains
FilterContains ==
    /\ args.ty = "filter"
    /\ ret' = [op |-> "filter_contains",
               val |-> MultiAssetFilter_contains(args.self, args.inner)]
    /\ UNCHANGED <<assets, args>>

\* v1 MultiAssets::contains
AssetsContains ==
    /\ args.ty = "assets"
    /\ ret' = [op |-> "assets_contains",
               val |-> MultiAssets_contains(args.self.inner, args.inner)]
    /\ UNCHANGED <<assets, args>>

\* Ord::cmp of MultiAsset, on each pair of three assets
Cmp ==
    /\ args.ty = "cmp"
    /\ ret' = [op |-> "cmp",
               ab |-> MultiAsset_cmp(args.a, args.b),
               ba |-> MultiAsset_cmp(args.b, args.a),
               bc |-> MultiAsset_cmp(args.b, args.c),
               ac |-> MultiAsset_cmp(args.a, args.c)]
    /\ UNCHANGED <<assets, args>>

NextCall ==
    \/ V0Contains
    \/ V1Contains
    \/ FilterContains
    \/ AssetsContains
    \/ Cmp

SpecCall == InitCall /\ [][NextCall]_vars

(***************************************************************************)
(* Conversions from the v0 types.  A v0 MultiLocation is a path of         *)
(* junctions in which Parent is a junction like any other; a v1            *)
(* MultiLocation counts its leading parents and has no Parent junction.    *)
(***************************************************************************)
V0Parent == [tag |-> "Parent"]

RECURSIVE LeadingParents(_)
LeadingParents(js) ==
    IF js = <<>> THEN 0
    ELSE IF Head(js).tag # "Parent" THEN 0
    ELSE 1 + LeadingParents(Tail(js))

\* TryFrom<v0::MultiLocation> for MultiLocation: the leading Parent
\* junctions become the count of parents, a Parent junction anywhere else
\* has no v1 equivalent.
MultiLocation_try_from_v0(old) ==
    LET p == LeadingParents(old.junctions)
        rest == SubSeq(old.junctions, p + 1, Len(old.junctions))
    IN  IF \E i \in 1..Len(rest) : rest[i].tag = "Parent"
        THEN Err
        ELSE Ok(MultiLocation(p, rest))

\* The v1 AssetId of a v0 concrete id (Concrete(id.try_into()?)).
Concrete_try_from_v0(old) ==
    LET l == MultiLocation_try_from_v0(old)
    IN  IF l.ok THEN Ok(Concrete(l.val)) ELSE Err

\* The enclosing conversions apply `?` to the id's result.
WithId(r, fun) == IF r.ok THEN Ok([id |-> r.val, fun |-> fun]) ELSE Err

\* TryFrom<v0::MultiAsset> for WildMultiAsset that approximates the two
\* variants without a v1 equivalent by All
WildMultiAsset_try_from_v0_approximating(old) ==
    CASE old.v \in {"All", "AllFungible", "AllNonFungible"} -> Ok(WildAll)
      [] old.v = "AllConcreteFungible" ->
            LET r == WithId(Concrete_try_from_v0(old.id), WildFungible)
            IN  IF r.ok THEN Ok(AllOf(r.val.id, r.val.fun)) ELSE Err
      [] old.v = "AllConcreteNonFungible" ->
            LET r == WithId(Concrete_try_from_v0(old.class), WildNonFungible)
            IN  IF r.ok THEN Ok(AllOf(r.val.id, r.val.fun)) ELSE Err
      [] old.v = "AllAbstractFungible" ->
            Ok(AllOf(Abstract(old.id.bytes), WildFungible))
      [] old.v = "AllAbstractNonFungible" ->
            Ok(AllOf(Abstract(old.class.bytes), WildNonFungible))
      [] OTHER -> Err

\* TryFrom<v0::MultiAsset> for MultiAsset that carries the id over and
\* gives every fungible the amount 1
MultiAsset_try_from_v0_unit(old) ==
    CASE old.v = "ConcreteFungible" ->
            WithId(Concrete_try_from_v0(old.id), Fungible(1))
      [] old.v = "ConcreteNonFungible" ->
            WithId(Concrete_try_from_v0(old.class), NonFungible(old.instance))
      [] old.v = "AbstractFungible" ->
            Ok(MultiAsset(Abstract(old.id.bytes), Fungible(1)))
      [] old.v = "AbstractNonFungible" ->
            Ok(MultiAsset(Abstract(old.class.bytes), NonFungible(old.instance)))
      [] OTHER -> Err

\* impl TryFrom<v0::MultiAsset> for MultiAsset
MultiAsset_try_from_v0(old) ==
    CASE old.v = "ConcreteFungible" ->
            WithId(Concrete_try_from_v0(old.id), Fungible(old.amount))
      [] old.v = "ConcreteNonFungible" ->
            WithId(Concrete_try_from_v0(old.class), NonFungible(old.instance))
      [] old.v = "AbstractFungible" ->
            Ok(MultiAsset(Abstract(old.id.bytes), Fungible(old.amount)))
      [] old.v = "AbstractNonFungible" ->
            Ok(MultiAsset(Abstract(old.class.bytes), NonFungible(old.instance)))
      [] OTHER -> Err

\* Option<MultiAsset>
None == [some |-> FALSE]
Some(x) == [some |-> TRUE, val |-> x]

\* impl TryFrom<v0::MultiAsset> for Option<MultiAsset>
Option_MultiAsset_try_from_v0(old) ==
    IF old.v = "None" THEN Ok(None)
    ELSE LET r == MultiAsset_try_from_v0(old)
         IN  IF r.ok THEN Ok(Some(r.val)) ELSE Err

\* impl TryFrom<v0::MultiAsset> for WildMultiAsset
WildMultiAsset_try_from_v0(old) ==
    CASE old.v = "All" -> Ok(WildAll)
      [] old.v = "AllConcreteFungible" ->
            LET r == WithId(Concrete_try_from_v0(old.id), WildFungible)
            IN  IF r.ok THEN Ok(AllOf(r.val.id, r.val.fun)) ELSE Err
      [] old.v = "AllConcreteNonFungible" ->
            LET r == WithId(Concrete_try_from_v0(old.class), WildNonFungible)
            IN  IF r.ok THEN Ok(AllOf(r.val.id, r.val.fun)) ELSE Err
      [] old.v = "AllAbstractFungible" ->
            Ok(AllOf(Abstract(old.id.bytes), WildFungible))
      [] old.v = "AllAbstractNonFungible" ->
            Ok(AllOf(Abstract(old.class.bytes), WildNonFungible))
      [] OTHER -> Err

\* impl TryFrom<Vec<v0::MultiAsset>> for MultiAsset that converts the first
\* element of any non-empty list
MultiAsset_try_from_v0_vec_first(old) ==
    IF Len(old) >= 1 THEN MultiAsset_try_from_v0(old[1]) ELSE Err

\* impl TryFrom<Vec<v0::MultiAsset>> for MultiAsset
MultiAsset_try_from_v0_vec(old) ==
    IF Len(old) = 1 THEN MultiAsset_try_from_v0(old[1]) ELSE Err

\* impl TryFrom<Vec<v0::MultiAsset>> for WildMultiAsset
WildMultiAsset_try_from_v0_vec(old) ==
    IF Len(old) = 1 THEN WildMultiAsset_try_from_v0(old[1]) ELSE Err

(***************************************************************************)
(* Conversions from the v1 types to the v0 types, up to the conversion of  *)
(* a v1 message (v0/mod.rs).  A Result is a record as before.              *)
(***************************************************************************)
\* The greatest number of junctions of a v0 MultiLocation (8, scaled).
MaxV0Junctions == 2

(***************************************************************************)
(* Junctions (v0/junction.rs).  A junction of either generation is the     *)
(* record of its variant and fields; only v0 has the variant Parent.       *)
(***************************************************************************)
AccountId32(network, id) == [tag |-> "AccountId32", network |-> network, id |-> id]
AccountIndex64(network, index) ==
    [tag |-> "AccountIndex64", network |-> network, index |-> index]
AccountKey20(network, key) == [tag |-> "AccountKey20", network |-> network, key |-> key]
PalletInstance(index) == [tag |-> "PalletInstance", index |-> index]
GeneralIndex(index) == [tag |-> "GeneralIndex", index |-> index]
GeneralKey(key) == [tag |-> "GeneralKey", key |-> key]
Plurality(id, part) == [tag |-> "Plurality", id |-> id, part |-> part]

\* BodyPart
Voice == [part |-> "Voice"]
Members(count) == [part |-> "Members", count |-> count]
Fraction(nom, denom) == [part |-> "Fraction", nom |-> nom, denom |-> denom]
AtLeastProportion(nom, denom) ==
    [part |-> "AtLeastProportion", nom |-> nom, denom |-> denom]
MoreThanProportion(nom, denom) ==
    [part |-> "MoreThanProportion", nom |-> nom, denom |-> denom]

\* The width of a u32 (32, scaled).
WordBits == 3
WordModulus == 2 ^ WordBits

\* u32 `*`: the product when it fits; when it does not, the wrapped product
\* in a build without overflow checks and a panic in a build with them.
Panic == [panic |-> TRUE]
Returns(v) == [panic |-> FALSE, val |-> v]
u32_mul(a, b, checks) ==
    IF a * b < WordModulus THEN Returns(a * b)
    ELSE IF checks THEN Panic
    ELSE Returns((a * b) % WordModulus)

\* BodyPart::is_majority, in a build with or without overflow checks
is_majority(self, checks) ==
    IF self.part \in {"Fraction", "AtLeastProportion", "MoreThanProportion"}
    THEN LET twice == u32_mul(self.nom, 2, checks)
         IN  IF twice.panic THEN Panic
             ELSE IF self.part = "MoreThanProportion"
             THEN Returns(twice.val >= self.denom)
             ELSE Returns(twice.val > self.denom)
    ELSE Returns(FALSE)

\* impl From<v1::Junction> for Junction that sends a pallet instance to a
\* general index
V0Junction_from_lossy(v1) ==
    IF v1.tag = "PalletInstance" THEN GeneralIndex(v1.index) ELSE v1

\* impl From<v1::Junction> for v0 Junction: each variant to the variant of
\* the same name, with its fields.
V0Junction_from(v1) ==
    CASE v1.tag = "Parachain" -> Parachain(v1.index)
      [] v1.tag = "AccountId32" -> AccountId32(v1.network, v1.id)
      [] v1.tag = "AccountIndex64" -> AccountIndex64(v1.network, v1.index)
      [] v1.tag = "AccountKey20" -> AccountKey20(v1.network, v1.key)
      [] v1.tag = "PalletInstance" -> PalletInstance(v1.index)
      [] v1.tag = "GeneralIndex" -> GeneralIndex(v1.index)
      [] v1.tag = "GeneralKey" -> GeneralKey(v1.key)
      [] v1.tag = "OnlyChild" -> OnlyChild
      [] v1.tag = "Plurality" -> Plurality(v1.id, v1.part)

\* Junction::is_parent
is_parent(self) == IF self.tag = "Parent" THEN TRUE ELSE FALSE

\* Junction::is_interior
is_interior(self) ==
    CASE self.tag = "Parent" -> FALSE
      [] self.tag \in {"Parachain", "AccountId32", "AccountIndex64",
                       "AccountKey20", "PalletInstance", "GeneralIndex",
                       "GeneralKey", "OnlyChild", "Plurality"} -> TRUE

\* impl TryFrom<v1::MultiLocation> for v0 MultiLocation: a Parent junction
\* for each parent, then the interior, when the path is not too long.
V0MultiLocation_try_from(l) ==
    LET js == [i \in 1..l.parents |-> V0Parent]
              \o [i \in 1..Len(l.interior) |-> V0Junction_from(l.interior[i])]
    IN  IF Len(js) > MaxV0Junctions THEN Err ELSE Ok([junctions |-> js])

\* impl TryFrom<v1::MultiAsset> for v0 MultiAsset
V0MultiAsset_try_from(m) ==
    LET l == V0MultiLocation_try_from(m.id.loc)
    IN  CASE m.id.kind = "Concrete" /\ m.fun.kind = "Fungible" ->
                IF l.ok THEN Ok(V0ConcreteFungible(l.val, m.fun.amount)) ELSE Err
          [] m.id.kind = "Concrete" /\ m.fun.kind = "NonFungible" ->
                IF l.ok THEN Ok(V0ConcreteNonFungible(l.val, m.fun.instance))
                ELSE Err
          [] m.id.kind = "Abstract" /\ m.fun.kind = "Fungible" ->
                Ok(V0AbstractFungible([bytes |-> m.id.bytes], m.fun.amount))
          [] m.id.kind = "Abstract" /\ m.fun.kind = "NonFungible" ->
                Ok(V0AbstractNonFungible([bytes |-> m.id.bytes], m.fun.instance))

\* collect that leaves the Err elements out
collect_ok(res) ==
    LET F[i \in 0..Len(res)] ==
            IF i = 0 THEN <<>>
            ELSE IF res[i].ok THEN Append(F[i - 1], res[i].val) ELSE F[i - 1]
    IN  Ok(F[Len(res)])

\* into_iter().map(f).collect::<Result<Vec<_>, ()>>(): res[i] is f of
\* element i; Err if any is, else the vector of the values.
collect(res) ==
    IF \E i \in 1..Len(res) : ~res[i].ok THEN Err
    ELSE Ok([i \in 1..Len(res) |-> res[i].val])

\* impl TryFrom<MultiAssets> for Vec<v0 MultiAsset>
V0Vec_try_from_assets(m) ==
    collect([i \in 1..Len(m) |-> V0MultiAsset_try_from(m[i])])

\* TryFrom<WildMultiAsset> for v0 MultiAsset that turns every wildcard
\* into All
V0MultiAsset_try_from_wild_all(m) == Ok(V0All)

\* impl TryFrom<WildMultiAsset> for v0 MultiAsset
V0MultiAsset_try_from_wild(m) ==
    LET l == V0MultiLocation_try_from(m.id.loc)
    IN  CASE m.w = "All" -> Ok(V0All)
          [] m.w = "AllOf" /\ m.id.kind = "Concrete" /\ m.fun = WildFungible ->
                IF l.ok THEN Ok(V0AllConcreteFungible(l.val)) ELSE Err
          [] m.w = "AllOf" /\ m.id.kind = "Concrete" /\ m.fun = WildNonFungible ->
                IF l.ok THEN Ok(V0AllConcreteNonFungible(l.val)) ELSE Err
          [] m.w = "AllOf" /\ m.id.kind = "Abstract" /\ m.fun = WildFungible ->
                Ok(V0AllAbstractFungible([bytes |-> m.id.bytes]))
          [] m.w = "AllOf" /\ m.id.kind = "Abstract" /\ m.fun = WildNonFungible ->
                Ok(V0AllAbstractNonFungible([bytes |-> m.id.bytes]))

\* impl TryFrom<WildMultiAsset> for Vec<v0 MultiAsset>
V0Vec_try_from_wild(m) ==
    LET r == V0MultiAsset_try_from_wild(m)
    IN  IF r.ok THEN Ok(<<r.val>>) ELSE Err

\* impl TryFrom<MultiAssetFilter> for Vec<v0 MultiAsset>
V0Vec_try_from_filter(m) ==
    IF m.f = "Definite" THEN V0Vec_try_from_assets(m.assets)
    ELSE V0Vec_try_from_wild(m.wild)

\* v1 orders: Noop, and DepositAsset of a filter to a beneficiary.
Noop == [o |-> "Noop"]
DepositAsset(filter, beneficiary) ==
    [o |-> "DepositAsset", assets |-> filter, beneficiary |-> beneficiary]

\* impl TryFrom<v1::Order> for v0 Order
V0Order_try_from(order) ==
    IF order.o = "Noop" THEN Ok([o |-> "Null"])
    ELSE LET a == V0Vec_try_from_filter(order.assets)
             d == V0MultiLocation_try_from(order.beneficiary)
         IN  IF a.ok /\ d.ok
             THEN Ok([o |-> "DepositAsset", assets |-> a.val, dest |-> d.val])
             ELSE Err

\* effects.into_iter().map(Order::try_from).collect::<Result<_, _>>()
V0Orders_try_from(effects) ==
    collect([i \in 1..Len(effects) |-> V0Order_try_from(effects[i])])

\* v1 Response
ResponseAssets(a) == [r |-> "Assets", assets |-> a]
ResponseVersion(v) == [r |-> "Version", version |-> v]

\* impl TryFrom<v1::Response> for v0 Response
V0Response_try_from(new_response) ==
    IF new_response.r = "Assets"
    THEN LET a == V0Vec_try_from_assets(new_response.assets)
         IN  IF a.ok THEN Ok([r |-> "Assets", assets |-> a.val]) ELSE Err
    ELSE Err

\* The v0 variant a v1 variant of Xcm becomes.
V0VariantOf(x) ==
    CASE x = "ReserveAssetDeposited" -> "ReserveAssetDeposit"
      [] x = "ReceiveTeleportedAsset" -> "TeleportAsset"
      [] OTHER -> x

\* impl TryFrom<v1::Xcm<Call>> for v0 Xcm<Call>
RECURSIVE V0Xcm_try_from(_)
V0Xcm_try_from(x) ==
    CASE x.x \in {"WithdrawAsset", "ReserveAssetDeposited",
                  "ReceiveTeleportedAsset"} ->
            LET a == V0Vec_try_from_assets(x.assets)
                e == V0Orders_try_from(x.effects)
            IN  IF a.ok /\ e.ok
                THEN Ok([x |-> V0VariantOf(x.x), assets |-> a.val,
                         effects |-> e.val])
                ELSE Err
      [] x.x = "QueryResponse" ->
            LET r == V0Response_try_from(x.response)
            IN  IF r.ok
                THEN Ok([x |-> "QueryResponse", query_id |-> x.query_id,
                         response |-> r.val])
                ELSE Err
      [] x.x = "TransferAsset" ->
            LET a == V0Vec_try_from_assets(x.assets)
                d == V0MultiLocation_try_from(x.beneficiary)
            IN  IF a.ok /\ d.ok
                THEN Ok([x |-> "TransferAsset", assets |-> a.val, dest |-> d.val])
                ELSE Err
      [] x.x = "TransferReserveAsset" ->
            LET a == V0Vec_try_from_assets(x.assets)
                d == V0MultiLocation_try_from(x.dest)
                e == V0Orders_try_from(x.effects)
            IN  IF a.ok /\ d.ok /\ e.ok
                THEN Ok([x |-> "TransferReserveAsset", assets |-> a.val,
                         dest |-> d.val, effects |-> e.val])
                ELSE Err
      [] x.x \in {"HrmpNewChannelOpenRequest", "HrmpChannelAccepted",
                  "HrmpChannelClosing", "Transact"} -> Ok(x)
      [] x.x = "RelayedFrom" ->
            LET w == V0MultiLocation_try_from(MultiLocation(0, x.who))
                m == V0Xcm_try_from(x.message)
            IN  IF w.ok /\ m.ok
                THEN Ok([x |-> "RelayedFrom", who |-> w.val, message |-> m.val])
                ELSE Err
      [] x.x \in {"SubscribeVersion", "UnsubscribeVersion"} -> Err

\* The longest chain of RelayedFrom around a message.
MaxRelay == 2

\* A location with more hops than a v0 MultiLocation has junctions.
TooDeep == MultiLocation(MaxV0Junctions, <<OnlyChild>>)

XcmAssets ==
    {<<MultiAsset(Abstract(<<>>), Fungible(1))>>,
     <<MultiAsset(Concrete(Here), Fungible(1)),
       MultiAsset(Concrete(TooDeep), Fungible(1))>>}
XcmLocations == {ParentLoc, TooDeep}
XcmEffects ==
    {<<>>,
     <<Noop, DepositAsset(Wild(WildAll), ParentLoc)>>,
     <<Noop, DepositAsset(Wild(AllOf(Concrete(TooDeep), WildFungible)), ParentLoc)>>}
XcmWhos == {<<OnlyChild>>, [i \in 1..(MaxV0Junctions + 1) |-> OnlyChild]}
XcmResponses ==
    {ResponseAssets(a) : a \in XcmAssets} \cup {ResponseVersion(1)}

RECURSIVE Xcm1Values(_)
Xcm1Values(n) ==
    IF n = 0
    THEN {[x |-> v, assets |-> a, effects |-> e] :
            v \in {"WithdrawAsset", "ReserveAssetDeposited",
                   "ReceiveTeleportedAsset"},
            a \in XcmAssets, e \in XcmEffects}
         \cup {[x |-> "QueryResponse", query_id |-> 0, response |-> r] :
            r \in XcmResponses}
         \cup {[x |-> "TransferAsset", assets |-> a, beneficiary |-> l] :
            a \in XcmAssets, l \in XcmLocations}
         \cup {[x |-> "TransferReserveAsset", assets |-> a, dest |-> l,
                effects |-> e] :
            a \in XcmAssets, l \in XcmLocations, e \in XcmEffects}
         \cup {[x |-> v] :
            v \in {"HrmpNewChannelOpenRequest", "HrmpChannelAccepted",
                   "HrmpChannelClosing", "Transact", "SubscribeVersion",
                   "UnsubscribeVersion"}}
    ELSE Xcm1Values(n - 1)
         \cup {[x |-> "RelayedFrom", who |-> w, message |-> m] :
            w \in XcmWhos, m \in Xcm1Values(n - 1)}

(***************************************************************************)
(* Conversions of a Vec<v0::MultiAsset> to the v1 collection and to the    *)
(* v1 filter (v1/multiasset.rs).                                           *)
(***************************************************************************)
\* .map(Option::<MultiAsset>::try_from).filter_map(|x| x.transpose()): the
\* conversion of each element, without the elements that gave Ok(None);
\* Ok(Some(a)) becomes Ok(a) and Err stays.
filter_map_transpose(old) ==
    LET res == [i \in 1..Len(old) |-> Option_MultiAsset_try_from_v0(old[i])]
        kept == SelectSeq(res, LAMBDA r : ~r.ok \/ r.val.some)
    IN  [i \in 1..Len(kept) |->
            IF kept[i].ok THEN Ok(kept[i].val.val) ELSE Err]

\* impl TryFrom<Vec<v0::MultiAsset>> for MultiAssets that keeps the
\* converted vector as it is
MultiAssets_try_from_v0_vec_unmerged(old) == collect(filter_map_transpose(old))

\* impl TryFrom<Vec<v0::MultiAsset>> for MultiAssets
MultiAssets_try_from_v0_vec(old) ==
    LET v == collect(filter_map_transpose(old))
    IN  IF v.ok THEN Ok(MultiAssets_from(v.val)) ELSE Err

\* impl TryFrom<Vec<v0::MultiAsset>> for MultiAssetFilter that looks at the
\* first element of a list of any length
MultiAssetFilter_try_from_v0_vec_any_len(old) ==
    IF Len(old) >= 1 /\ v0_is_wildcard(old[1])
    THEN LET w == WildMultiAsset_try_from_v0(old[1])
         IN  IF w.ok THEN Ok(Wild(w.val)) ELSE Err
    ELSE LET a == MultiAssets_try_from_v0_vec(old)
         IN  IF a.ok THEN Ok(Definite(a.val)) ELSE Err

\* impl TryFrom<Vec<v0::MultiAsset>> for MultiAssetFilter
MultiAssetFilter_try_from_v0_vec(old) ==
    IF Len(old) = 1 /\ v0_is_wildcard(old[1])
    THEN LET w == WildMultiAsset_try_from_v0(old[1])
         IN  IF w.ok THEN Ok(Wild(w.val)) ELSE Err
    ELSE LET a == MultiAssets_try_from_v0_vec(old)
         IN  IF a.ok THEN Ok(Definite(a.val)) ELSE Err

(***************************************************************************)
(* Calls of the conversions: the initial state draws the value to convert, *)
(* the action of the conversion called returns its result.                 *)
(***************************************************************************)
\* The longest Vec<v0::MultiAsset> converted.
MaxV0Len == 2

V0ParentChild == [junctions |-> <<V0Parent, OnlyChild>>]
V0ChildParent == [junctions |-> <<OnlyChild, V0Parent>>]
V0ConvLocations == {V0Null, V0X1Parent, V0ParentChild, V0ChildParent}

V0ConvValues ==
    {V0None, V0All, V0AllFungible, V0AllNonFungible}
    \cup {V0AllAbstractFungible(b) : b \in V0Bytes}
    \cup {V0AllAbstractNonFungible(b) : b \in V0Bytes}
    \cup {V0AllConcreteFungible(l) : l \in V0ConvLocations}
    \cup {V0AllConcreteNonFungible(l) : l \in V0ConvLocations}
    \cup {V0AbstractFungible(b, n) : b \in V0Bytes, n \in Amounts}
    \cup {V0AbstractNonFungible(b, i) : b \in V0Bytes, i \in Instances}
    \cup {V0ConcreteFungible(l, n) : l \in V0ConvLocations, n \in Amounts}
    \cup {V0ConcreteNonFungible(l, i) : l \in V0ConvLocations, i \in Instances}

\* The elements of the lists converted: each kind of variant, with ids that
\* convert and ids that do not.
V0VecElems ==
    {V0None, V0All, V0AllFungible,
     V0AllConcreteFungible(V0Null),
     V0AllConcreteNonFungible(V0ChildParent),
     V0AbstractFungible([bytes |-> <<1>>], 1),
     V0AbstractNonFungible([bytes |-> <<>>], Undefined),
     V0ConcreteFungible(V0ParentChild, 1),
     V0ConcreteFungible(V0ChildParent, 1),
     V0ConcreteNonFungible(V0X1Parent, Index(1))}

V0Vecs == UNION {[1..k -> V0VecElems] : k \in 0..MaxV0Len}

ConvertArgs ==
    {[ty |-> "v0", old |-> a] : a \in V0ConvValues}
    \cup {[ty |-> "v0vec", old |-> [vec |-> v]] : v \in V0Vecs}
    \cup {[ty |-> "v0pair", self |-> a, inner |-> b] :
            a \in V0MultiAssetValues, b \in V0MultiAssetValues}
    \cup {[ty |-> "filter", new |-> f] : f \in MultiAssetFilterValues}
    \cup {[ty |-> "xcm", old |-> x] : x \in Xcm1Values(MaxRelay)}

InitConvert ==
    /\ assets = <<>>
    /\ args \in ConvertArgs
    /\ ret = [op |-> "none"]

MultiAssetFromV0 ==
    /\ args.ty = "v0"
    /\ ret' = [op |-> "MultiAsset::try_from", res |-> MultiAsset_try_from_v0(args.old)]
    /\ UNCHANGED <<assets, args>>

OptionFromV0 ==
    /\ args.ty = "v0"
    /\ ret' = [op |-> "Option::try_from",
               res |-> Option_MultiAsset_try_from_v0(args.old)]
    /\ UNCHANGED <<assets, args>>

WildFromV0 ==
    /\ args.ty = "v0"
    /\ ret' = [op |-> "WildMultiAsset::try_from",
               res |-> WildMultiAsset_try_from_v0(args.old)]
    /\ UNCHANGED <<assets, args>>

MultiAssetFromV0Vec ==
    /\ args.ty = "v0vec"
    /\ ret' = [op |-> "MultiAsset::try_from(Vec)",
               res |-> MultiAsset_try_from_v0_vec(args.old.vec)]
    /\ UNCHANGED <<assets, args>>

WildFromV0Vec ==
    /\ args.ty = "v0vec"
    /\ ret' = [op |-> "WildMultiAsset::try_from(Vec)",
               res |-> WildMultiAsset_try_from_v0_vec(args.old.vec)]
    /\ UNCHANGED <<assets, args>>

MultiAssetsFromV0Vec ==
    /\ args.ty = "v0vec"
    /\ ret' = [op |-> "MultiAssets::try_from(Vec)",
               res |-> MultiAssets_try_from_v0_vec(args.old.vec)]
    /\ UNCHANGED <<assets, args>>

FilterFromV0Vec ==
    /\ args.ty = "v0vec"
    /\ ret' = [op |-> "MultiAssetFilter::try_from(Vec)",
               res |-> MultiAssetFilter_try_from_v0_vec(args.old.vec)]
    /\ UNCHANGED <<assets, args>>

\* v0 contains on a pair of v0 assets, and v1 contains on their v1
\* conversions when both convert.
ContainsOfBoth ==
    /\ args.ty = "v0pair"
    /\ LET a == MultiAsset_try_from_v0(args.self)
           b == MultiAsset_try_from_v0(args.inner)
       IN  ret' = [op |-> "contains(v0, v1)",
                   v0 |-> v0_contains(args.self, args.inner),
                   converted |-> a.ok /\ b.ok,
                   v1 |-> IF a.ok /\ b.ok
                          THEN MultiAsset_contains(a.val, b.val) ELSE FALSE]
    /\ UNCHANGED <<assets, args>>

\* Vec::<v0::MultiAsset>::try_from(filter), and on Ok
\* MultiAssetFilter::try_from of the list.
FilterToV0AndBack ==
    /\ args.ty = "filter"
    /\ LET down == V0Vec_try_from_filter(args.new)
       IN  ret' = [op |-> "Vec::try_from(filter)",
                   down |-> IF down.ok THEN Ok([vec |-> down.val]) ELSE Err,
                   up |-> IF down.ok
                          THEN MultiAssetFilter_try_from_v0_vec(down.val)
                          ELSE Err]
    /\ UNCHANGED <<assets, args>>

XcmFromV1 ==
    /\ args.ty = "xcm"
    /\ ret' = [op |-> "v0::Xcm::try_from", res |-> V0Xcm_try_from(args.old)]
    /\ UNCHANGED <<assets, args>>

NextConvert ==
    \/ MultiAssetFromV0
    \/ OptionFromV0
    \/ WildFromV0
    \/ MultiAssetFromV0Vec
    \/ WildFromV0Vec
    \/ MultiAssetsFromV0Vec
    \/ FilterFromV0Vec
    \/ ContainsOfBoth
    \/ FilterToV0AndBack
    \/ XcmFromV1

SpecConvert == InitConvert /\ [][NextConvert]_vars

(***************************************************************************)
(* Rewriting locations: prepend_with and reanchor.  An operation on &mut   *)
(* self returns the record of its Result and of the value self has after   *)
(* the call.                                                               *)
(***************************************************************************)
\* The greatest count of parents a MultiLocation holds (u8::MAX, scaled).
MaxParents == 2

Res(ok, val) == [ok |-> ok, val |-> val]

RECURSIVE CommonPrefixLen(_, _)
CommonPrefixLen(s, t) ==
    IF s = <<>> \/ t = <<>> THEN 0
    ELSE IF Head(s) # Head(t) THEN 0
    ELSE 1 + CommonPrefixLen(Tail(s), Tail(t))

\* MultiLocation::prepend_with: "prefix, then self", each leading parent of
\* self cancelling a trailing interior junction of prefix; Err, and self as
\* it was, when the parents left over do not fit.
MultiLocation_prepend_with(self, prefix) ==
    LET n == Len(prefix.interior)
        k == IF self.parents < n THEN self.parents ELSE n
        parents == prefix.parents + (self.parents - k)
        interior == SubSeq(prefix.interior, 1, n - k) \o self.interior
    IN  IF parents > MaxParents
        THEN Res(FALSE, self)
        ELSE Res(TRUE, MultiLocation(parents, interior))

\* MultiLocation::reanchor that leaves out the hops up from the target
MultiLocation_reanchor_no_ascent(self, target, ancestry) ==
    LET pre == MultiLocation_prepend_with(self, ancestry)
        s == pre.val
        c == IF s.parents = target.parents
             THEN CommonPrefixLen(s.interior, target.interior) ELSE 0
    IN  IF ~pre.ok \/ target.parents > s.parents
        THEN Res(FALSE, self)
        ELSE Res(TRUE, MultiLocation(s.parents - target.parents,
                                     SubSeq(s.interior, c + 1, Len(s.interior))))

\* MultiLocation::reanchor: prepend ancestry, strip the prefix in common
\* with target, and turn what is left of target into parents; Err when
\* target is not on a path up from the combined location or the parents do
\* not fit.
MultiLocation_reanchor(self, target, ancestry) ==
    LET pre == MultiLocation_prepend_with(self, ancestry)
        s == pre.val
        c == IF s.parents = target.parents
             THEN CommonPrefixLen(s.interior, target.interior) ELSE 0
        parents == (s.parents - target.parents) + (Len(target.interior) - c)
    IN  IF ~pre.ok \/ target.parents > s.parents \/ parents > MaxParents
        THEN Res(FALSE, self)
        ELSE Res(TRUE, MultiLocation(parents,
                                     SubSeq(s.interior, c + 1, Len(s.interior))))

\* AssetId::prepend_with
AssetId_prepend_with(self, prepend) ==
    IF self.kind = "Concrete"
    THEN LET r == MultiLocation_prepend_with(self.loc, prepend)
         IN  Res(r.ok, Concrete(r.val))
    ELSE Res(TRUE, self)

\* AssetId::reanchor that refuses an abstract id
AssetId_reanchor_concrete_only(self, target, ancestry) ==
    IF self.kind = "Concrete"
    THEN LET r == MultiLocation_reanchor(self.loc, target, ancestry)
         IN  Res(r.ok, Concrete(r.val))
    ELSE Res(FALSE, self)

\* AssetId::reanchor
AssetId_reanchor(self, target, ancestry) ==
    IF self.kind = "Concrete"
    THEN LET r == MultiLocation_reanchor(self.loc, target, ancestry)
         IN  Res(r.ok, Concrete(r.val))
    ELSE Res(TRUE, self)

\* MultiAsset::prepend_with
MultiAsset_prepend_with(self, prepend) ==
    LET r == AssetId_prepend_with(self.id, prepend)
    IN  Res(r.ok, [self EXCEPT !.id = r.val])

\* MultiAsset::reanchor
MultiAsset_reanchor(self, target, ancestry) ==
    LET r == AssetId_reanchor(self.id, target, ancestry)
    IN  Res(r.ok, [self EXCEPT !.id = r.val])

\* iter_mut().try_for_each(f): res[i] is what f does to entry i; the entries
\* up to the first Err have been handed to f, those behind it have not.
try_for_each(self, res) ==
    LET fails == {i \in 1..Len(self) : ~res[i].ok}
        stop == IF fails = {} THEN Len(self)
                ELSE CHOOSE i \in fails : \A j \in fails : i <= j
    IN  Res(fails = {},
            [i \in 1..Len(self) |-> IF i <= stop THEN res[i].val ELSE self[i]])

\* MultiAssets::prepend_with
MultiAssets_prepend_with(self, prefix) ==
    try_for_each(self,
        [i \in 1..Len(self) |-> MultiAsset_prepend_with(self[i], prefix)])

\* MultiAssets::reanchor
MultiAssets_reanchor(self, target, ancestry) ==
    try_for_each(self,
        [i \in 1..Len(self) |-> MultiAsset_reanchor(self[i], target, ancestry)])

\* WildMultiAsset::reanchor
WildMultiAsset_reanchor(self, target, ancestry) ==
    IF self.w = "AllOf"
    THEN LET r == AssetId_reanchor(self.id, target, ancestry)
         IN  Res(r.ok, [self EXCEPT !.id = r.val])
    ELSE Res(TRUE, self)

(***************************************************************************)
(* The rewrites at work: either a fresh MultiAssets value is rewritten in  *)
(* place, once, or the initial state draws the arguments of one call on an *)
(* asset, a wildcard or a location.                                        *)
(***************************************************************************)
\* The longest collection rewritten.
MaxAnchorLen == 2

Junctions == {Parachain(1), OnlyChild}
Interiors ==
    {<<>>} \cup {<<j>> : j \in Junctions}
    \cup {<<Parachain(1), OnlyChild>>, <<OnlyChild, Parachain(1)>>}
Locations == {MultiLocation(p, i) : p \in 0..MaxParents, i \in Interiors}

AnchorIds ==
    {Concrete(MultiLocation(p, <<>>)) : p \in 0..MaxParents}
    \cup {Concrete(MultiLocation(0, <<OnlyChild>>)), Abstract(<<>>)}
AnchorAssets ==
    {MultiAsset(id, fun) : id \in AnchorIds,
                           fun \in {Fungible(1), NonFungible(Undefined)}}
AnchorWilds ==
    {WildAll} \cup {AllOf(id, WildFungible) : id \in AnchorIds}
AnchorCollections ==
    {MultiAssets_from(v) :
        v \in UNION {[1..k -> AnchorAssets] : k \in 0..MaxAnchorLen}}

\* Where the rewriting context sits under its root.
Ancestries == {Here, MultiLocation(0, <<OnlyChild>>)}

\* The arguments of one call: self, the target (which prepend_with takes as
\* its prefix) and the ancestry.
AnchorArgs ==
    {[ty |-> "asset", self |-> a, target |-> l, ancestry |-> c] :
        a \in AnchorAssets, l \in Locations, c \in Ancestries}
    \cup {[ty |-> "wild", self |-> w, target |-> l, ancestry |-> c] :
        w \in AnchorWilds, l \in Locations, c \in Ancestries}
    \cup {[ty |-> "location", self |-> x, target |-> t, ancestry |-> c] :
        x \in Locations, t \in Locations, c \in Locations}

InitAnchor ==
    /\ ret = [op |-> "new"]
    /\ \/ assets \in AnchorCollections /\ args = NoArgs
       \/ assets = <<>> /\ args \in AnchorArgs

\* MultiAssets::prepend_with(prefix) on the value in hand.
PrependWith ==
    /\ args = NoArgs
    /\ ret.op = "new"
    /\ \E prefix \in Locations :
        LET r == MultiAssets_prepend_with(assets, prefix)
        IN  /\ assets' = r.val
            /\ ret' = [op |-> "prepend_with", before |-> assets,
                       prefix |-> prefix, ok |-> r.ok]
    /\ UNCHANGED args

\* MultiAssets::reanchor(target, ancestry) on the value in hand.
Reanchor ==
    /\ args = NoArgs
    /\ ret.op = "new"
    /\ \E target \in Locations, ancestry \in Ancestries :
        LET r == MultiAssets_reanchor(assets, target, ancestry)
        IN  /\ assets' = r.val
            /\ ret' = [op |-> "reanchor", before |-> assets,
                       target |-> target, ancestry |-> ancestry, ok |-> r.ok]
    /\ UNCHANGED args

\* MultiAsset::prepend_with(prepend) on the asset drawn.
AssetPrependWith ==
    /\ args.ty = "asset"
    /\ ret' = [op |-> "MultiAsset::prepend_with",
               res |-> MultiAsset_prepend_with(args.self, args.target)]
    /\ UNCHANGED <<assets, args>>

\* MultiAsset::reanchor(target, ancestry) on the asset drawn.
AssetReanchor ==
    /\ args.ty = "asset"
    /\ ret' = [op |-> "MultiAsset::reanchor",
               res |-> MultiAsset_reanchor(args.self, args.target, args.ancestry)]
    /\ UNCHANGED <<assets, args>>

\* WildMultiAsset::reanchor(target, ancestry) on the wildcard drawn.
WildReanchor ==
    /\ args.ty = "wild"
    /\ ret' = [op |-> "WildMultiAsset::reanchor",
               res |-> WildMultiAsset_reanchor(args.self, args.target, args.ancestry)]
    /\ UNCHANGED <<assets, args>>

\* MultiLocation::reanchor(target, ancestry) on the location drawn.
LocationReanchor ==
    /\ args.ty = "location"
    /\ ret.op = "new"
    /\ ret' = [op |-> "MultiLocation::reanchor",
               res |-> MultiLocation_reanchor(args.self, args.target, args.ancestry)]
    /\ UNCHANGED <<assets, args>>

\* The location that came back is reanchored from the target's context to
\* the original one: target and ancestry change places.
LocationReanchorBack ==
    /\ args.ty = "location"
    /\ ret.op = "MultiLocation::reanchor"
    /\ ret.res.ok
    /\ ret' = [op |-> "MultiLocation::reanchor back", there |-> ret.res.val,
               res |-> MultiLocation_reanchor(ret.res.val, args.ancestry, args.target)]
    /\ UNCHANGED <<assets, args>>

NextAnchor ==
    \/ PrependWith
    \/ Reanchor
    \/ AssetPrependWith
    \/ AssetReanchor
    \/ WildReanchor
    \/ LocationReanchor
    \/ LocationReanchorBack

SpecAnchor == InitAnchor /\ [][NextAnchor]_vars



(***************************************************************************)
(* The asset trap and claim handlers of the executor (drop_assets.rs).  A  *)
(* handler type is a value: (), a trap of the host that charges a weight,  *)
(* or a filter around another handler; a Contains predicate is the set of  *)
(* the values it holds.  A call returns its result together with the calls *)
(* it made to other handlers, in order.                                    *)
(***************************************************************************)
Unit == [h |-> "()"]
Trap(weight) == [h |-> "Trap", weight |-> weight]
FilterAssets(D, A) == [h |-> "FilterAssets", d |-> D, contains |-> A]
FilterOrigin(D, O) == [h |-> "FilterOrigin", d |-> D, contains |-> O]

Dropped(weight, calls) == [weight |-> weight, calls |-> calls]
DropCall(D, origin, dropped) == [h |-> D, origin |-> origin, assets |-> dropped]

\* DropAssets::drop_assets with the filters delegating whatever their
\* predicate says
RECURSIVE drop_assets_unfiltered(_, _, _)
drop_assets_unfiltered(self, origin, dropped) ==
    CASE self.h = "()" -> Dropped(0, <<>>)
      [] self.h = "Trap" -> Dropped(self.weight, <<>>)
      [] OTHER ->
            LET r == drop_assets_unfiltered(self.d, origin, dropped)
            IN  Dropped(r.weight, <<DropCall(self.d, origin, dropped)>> \o r.calls)

\* DropAssets::drop_assets of the handler type self
RECURSIVE drop_assets(_, _, _)
drop_assets(self, origin, dropped) ==
    CASE self.h = "()" -> Dropped(0, <<>>)
      [] self.h = "Trap" -> Dropped(self.weight, <<>>)
      [] self.h = "FilterAssets" ->
            IF dropped \in self.contains
            THEN LET r == drop_assets(self.d, origin, dropped)
                 IN  Dropped(r.weight,
                             <<DropCall(self.d, origin, dropped)>> \o r.calls)
            ELSE Dropped(0, <<>>)
      [] self.h = "FilterOrigin" ->
            IF origin \in self.contains
            THEN LET r == drop_assets(self.d, origin, dropped)
                 IN  Dropped(r.weight,
                             <<DropCall(self.d, origin, dropped)>> \o r.calls)
            ELSE Dropped(0, <<>>)

\* A member of a tuple of ClaimAssets handlers: it claims for the tickets it
\* knows.
Claimant(tickets) == [tickets |-> tickets]
member_claim_assets(m, origin, ticket, what) == ticket \in m.tickets

Claimed(val, calls) == [val |-> val, calls |-> calls]
ClaimCall(i, origin, ticket, what, val) ==
    [member |-> i, origin |-> origin, ticket |-> ticket, what |-> what,
     val |-> val]

\* ClaimAssets for Tuple that asks every member and returns whether any
\* claimed
RECURSIVE claim_assets_all(_, _, _, _, _)
claim_assets_all(self, i, origin, ticket, what) ==
    IF i > Len(self) THEN Claimed(FALSE, <<>>)
    ELSE LET v == member_claim_assets(self[i], origin, ticket, what)
             r == claim_assets_all(self, i + 1, origin, ticket, what)
         IN  Claimed(v \/ r.val,
                     <<ClaimCall(i, origin, ticket, what, v)>> \o r.calls)

\* ClaimAssets for Tuple, from its member i on: the expansion of for_tuples!
RECURSIVE claim_assets(_, _, _, _, _)
claim_assets(self, i, origin, ticket, what) ==
    IF i > Len(self) THEN Claimed(FALSE, <<>>)
    ELSE LET v == member_claim_assets(self[i], origin, ticket, what)
         IN  IF v
             THEN Claimed(TRUE, <<ClaimCall(i, origin, ticket, what, v)>>)
             ELSE LET r == claim_assets(self, i + 1, origin, ticket, what)
                  IN  Claimed(r.val,
                              <<ClaimCall(i, origin, ticket, what, v)>> \o r.calls)

(***************************************************************************)
(* Calls of the handlers: the initial state draws a handler type and the   *)
(* arguments of one call.                                                  *)
(***************************************************************************)
\* The deepest nesting of filters around a handler.
MaxNest == 2
\* The longest tuple of claim handlers (30 in the code).
MaxTuple == 3

Origins == {Here, ParentLoc}
Holdings ==
    {<<MultiAsset(Abstract(<<>>), Fungible(1))>>,
     <<MultiAsset(Abstract(<<>>), NonFungible(Undefined))>>}
AssetPredicates ==
    {{<<MultiAsset(Abstract(<<>>), Fungible(1))>>}, Holdings}
OriginPredicates == {{Here}, {}}

RECURSIVE Handlers(_)
Handlers(n) ==
    IF n = 0 THEN {Unit, Trap(1)}
    ELSE Handlers(n - 1)
         \cup {FilterAssets(D, A) : D \in Handlers(n - 1), A \in AssetPredicates}
         \cup {FilterOrigin(D, O) : D \in Handlers(n - 1), O \in OriginPredicates}

Claimants == {Claimant({}), Claimant({Here}), Claimant({Here, ParentLoc})}
Tuples == UNION {[1..k -> Claimants] : k \in 0..MaxTuple}

TrapArgs ==
    {[ty |-> "drop", self |-> D, origin |-> o, assets |-> a] :
        D \in Handlers(MaxNest), o \in Origins, a \in Holdings}
    \cup {[ty |-> "claim", self |-> [members |-> t], origin |-> o,
           ticket |-> l, what |-> w] :
        t \in Tuples, o \in {Here}, l \in Origins, w \in Holdings}

InitTrap ==
    /\ assets = <<>>
    /\ args \in TrapArgs
    /\ ret = [op |-> "none"]

DropAssets ==
    /\ args.ty = "drop"
    /\ ret' = [op |-> "drop_assets",
               res |-> drop_assets(args.self, args.origin, args.assets)]
    /\ UNCHANGED <<assets, args>>

ClaimAssets ==
    /\ args.ty = "claim"
    /\ ret' = [op |-> "claim_assets",
               res |-> claim_assets(args.self.members, 1, args.origin,
                                    args.ticket, args.what)]
    /\ UNCHANGED <<assets, args>>

NextTrap == DropAssets \/ ClaimAssets

SpecTrap == InitTrap /\ [][NextTrap]_vars



(***************************************************************************)
(* Calls of the junction functions: the initial state draws the junctions  *)
(* or the body part of one call.                                           *)
(***************************************************************************)
NetworkIds == {"Any", "Polkadot"}
V1Junctions ==
    {Parachain(1), Parachain(2), OnlyChild}
    \cup {AccountId32(n, i) : n \in NetworkIds, i \in {0, 1}}
    \cup {AccountIndex64(n, i) : n \in NetworkIds, i \in {0, 1}}
    \cup {AccountKey20(n, i) : n \in NetworkIds, i \in {0, 1}}
    \cup {PalletInstance(i) : i \in {0, 1}}
    \cup {GeneralIndex(i) : i \in {0, 1}}
    \cup {GeneralKey(k) : k \in {<<>>, <<1>>}}
    \cup {Plurality(b, p) : b \in {"Unit", "Executive"}, p \in {Voice, Members(1)}}
V0Junctions == {V0Parent} \cup V1Junctions

Words == 0..(WordModulus - 1)
BodyParts ==
    {Voice} \cup {Members(c) : c \in Words}
    \cup {Fraction(n, d) : n \in Words, d \in Words}
    \cup {AtLeastProportion(n, d) : n \in Words, d \in Words}
    \cup {MoreThanProportion(n, d) : n \in Words, d \in Words}

JunctionArgs ==
    {[ty |-> "v1", a |-> a, b |-> b] : a \in V1Junctions, b \in V1Junctions}
    \cup {[ty |-> "v0", self |-> j] : j \in V0Junctions}
    \cup {[ty |-> "part", self |-> p] : p \in BodyParts}

InitJunction ==
    /\ assets = <<>>
    /\ args \in JunctionArgs
    /\ ret = [op |-> "none"]

\* Junction::from, on each of two v1 junctions.
JunctionFromV1 ==
    /\ args.ty = "v1"
    /\ ret' = [op |-> "Junction::from", a |-> V0Junction_from(args.a),
               b |-> V0Junction_from(args.b)]
    /\ UNCHANGED <<assets, args>>

IsParent ==
    /\ args.ty = "v0"
    /\ ret' = [op |-> "is_parent", val |-> is_parent(args.self)]
    /\ UNCHANGED <<assets, args>>

IsInterior ==
    /\ args.ty = "v0"
    /\ ret' = [op |-> "is_interior", val |-> is_interior(args.self)]
    /\ UNCHANGED <<assets, args>>

\* BodyPart::is_majority, in either kind of build.
IsMajority ==
    /\ args.ty = "part"
    /\ \E checks \in BOOLEAN :
        ret' = [op |-> "is_majority", checks |-> checks,
                res |-> is_majority(args.self, checks)]
    /\ UNCHANGED <<assets, args>>

NextJunction ==
    \/ JunctionFromV1
    \/ IsParent
    \/ IsInterior
    \/ IsMajority

SpecJunction == InitJunction /\ [][NextJunction]_vars













(***************************************************************************)
(* Properties of MultiAssets::from and from_sorted_and_deduplicated,       *)
(* checked under Spec.                                                     *)
(***************************************************************************)
RECURSIVE FungibleSum(_, _)
\* The sum of the fungible amounts of id in the vector v.
FungibleSum(v, id) ==
    IF v = <<>> THEN 0
    ELSE (IF Head(v).fun.kind = "Fungible" /\ Head(v).id = id
          THEN Head(v).fun.amount ELSE 0) + FungibleSum(Tail(v), id)

FungibleEntries(s, id) ==
    {i \in 1..Len(s) : s[i].fun.kind = "Fungible" /\ s[i].id = id}

Min(a, b) == IF a < b THEN a ELSE b

\* C1: MultiAssets::from(v) holds at most one fungible entry per asset id,
\* and that entry's amount is the sum of the fungible amounts of that id in
\* v, capped at the largest amount (saturating, never wrapping); two
\* fungibles of equal id give exactly one entry.
C1_FromMergesFungibles ==
    ret.op = "from" =>
        /\ \A id \in AssetIds :
            LET inV == FungibleEntries(ret.input, id)
                inR == FungibleEntries(assets, id)
            IN  /\ Cardinality(inR) <= 1
                /\ (inV # {}) = (inR # {})
                /\ \A i \in inR :
                    assets[i].fun.amount =
                        Min(FungibleSum(ret.input, id), AmountMax)
        /\ (/\ Len(ret.input) = 2
            /\ ret.input[1].fun.kind = "Fungible"
            /\ ret.input[2].fun.kind = "Fungible"
            /\ ret.input[1].id = ret.input[2].id)
           => assets = <<MultiAsset(ret.input[1].id,
                            Fungible(Min(ret.input[1].fun.amount
                                         + ret.input[2].fun.amount, AmountMax)))>>

\* C1's case: two fungibles of one id whose sum exceeds the largest amount
\* have been merged into one saturated entry.
C1_Witness ==
    /\ ret.op = "from"
    /\ Len(ret.input) = 2
    /\ ret.input[1].fun.kind = "Fungible"
    /\ ret.input[2].fun.kind = "Fungible"
    /\ ret.input[1].id = ret.input[2].id
    /\ ret.input[1].fun.amount + ret.input[2].fun.amount > AmountMax
    /\ Len(assets) = 1
    /\ assets[1].fun.amount = AmountMax

NonFungiblePairs(s) ==
    {<<s[i].id, s[i].fun.instance>> : i \in {k \in 1..Len(s) : s[k].fun.kind = "NonFungible"}}

\* C2: the inner vector of MultiAssets::from(v) is strictly ascending with
\* every fungible entry before every non-fungible one, holds each distinct
\* non-fungible (id, instance) pair of v exactly once, and holds no entry
\* whose id does not occur in v; [F(A,1), F(A,1), NF(B,Index(1))] gives
\* exactly [{A, Fungible(2)}, {B, NonFungible(Index(1))}].
C2_FromIsNormalized ==
    ret.op = "from" =>
        /\ \A i \in 1..(Len(assets) - 1) :
            MultiAsset_cmp(assets[i], assets[i + 1]) = Less
        /\ \A i, j \in 1..Len(assets) :
            (assets[i].fun.kind = "NonFungible" /\ assets[j].fun.kind = "Fungible")
                => j < i
        /\ NonFungiblePairs(assets) = NonFungiblePairs(ret.input)
        /\ \A i, j \in 1..Len(assets) :
            (/\ i # j
             /\ assets[i].fun.kind = "NonFungible"
             /\ assets[j].fun.kind = "NonFungible")
                => <<assets[i].id, assets[i].fun.instance>>
                     # <<assets[j].id, assets[j].fun.instance>>
        /\ {assets[i].id : i \in 1..Len(assets)}
             = {ret.input[i].id : i \in 1..Len(ret.input)}
        /\ ret.input = <<MultiAsset(Abstract(<<>>), Fungible(1)),
                         MultiAsset(Abstract(<<>>), Fungible(1)),
                         MultiAsset(Abstract(<<1>>), NonFungible(Index(1)))>>
           => assets = <<MultiAsset(Abstract(<<>>), Fungible(2)),
                         MultiAsset(Abstract(<<1>>), NonFungible(Index(1)))>>

\* C2's case: the end-to-end scenario, given out of order.
C2_Witness ==
    /\ ret.op = "from"
    /\ ret.input = <<MultiAsset(Abstract(<<1>>), NonFungible(Index(1))),
                     MultiAsset(Abstract(<<>>), Fungible(1)),
                     MultiAsset(Abstract(<<>>), Fungible(1))>>
    /\ assets = <<MultiAsset(Abstract(<<>>), Fungible(2)),
                  MultiAsset(Abstract(<<1>>), NonFungible(Index(1)))>>

\* C3, as the specification states it: from_sorted_and_deduplicated(r), and so Decode, returns
\* Ok if and only if r is the inner vector of MultiAssets::from(r).
C3_DecodeAcceptsExactlyNormalized ==
    ret.op = "decode" => (ret.ok <=> ret.input = MultiAssets_from(ret.input))

\* C4, as the specification states it: a vector returned Ok by from_sorted_and_deduplicated has
\* no two fungible entries of one id and no two identical entries, whatever
\* their positions.
C4_DecodedHasNoDuplicates ==
    (ret.op = "decode" /\ ret.ok) =>
        \A i, j \in 1..Len(assets) :
            i # j =>
                /\ assets[i] # assets[j]
                /\ ~(/\ assets[i].fun.kind = "Fungible"
                     /\ assets[j].fun.kind = "Fungible"
                     /\ assets[i].id = assets[j].id)

\* C5: from_sorted_and_deduplicated(MultiAssets::from(v).inner().clone())
\* returns Ok, and the value it returns equals MultiAssets::from(v).
C5_FromThenDecodeRoundTrip ==
    ret.op = "from" =>
        /\ from_sorted_and_deduplicated(assets).ok
        /\ from_sorted_and_deduplicated(assets).val = assets

\* C5's case: a vector that from() had to reorder and merge, and whose
\* normal form holds a fungible and two non-fungibles of one id.
C5_Witness ==
    /\ ret.op = "from"
    /\ Len(ret.input) = 3
    /\ ret.input # assets
    /\ Len(assets) = 2
    /\ assets[1].id = assets[2].id
    /\ from_sorted_and_deduplicated(assets) = Ok(assets)

(***************************************************************************)
(* Properties of the containment tests, checked under SpecCall.            *)
(***************************************************************************)
\* C6: v1 MultiAsset::contains(self, inner) is true exactly when the ids
\* are equal and either both are fungible with self.amount >= inner.amount
\* or both are non-fungible with equal instance; it is false for any id or
\* kind mismatch, and x.contains(x) is true for every x.
C6_MultiAssetContains ==
    ret.op = "v1_contains" =>
        LET s == args.self
            i == args.inner
        IN  /\ ret.val <=>
                /\ s.id = i.id
                /\ \/ /\ s.fun.kind = "Fungible" /\ i.fun.kind = "Fungible"
                      /\ s.fun.amount >= i.fun.amount
                   \/ /\ s.fun.kind = "NonFungible" /\ i.fun.kind = "NonFungible"
                      /\ s.fun.instance = i.fun.instance
            /\ (s.id # i.id \/ s.fun.kind # i.fun.kind) => ~ret.val
            /\ s = i => ret.val

\* C6's case: a fungible asset has been tested against itself.
C6_Witness ==
    /\ ret.op = "v1_contains"
    /\ args.self = args.inner
    /\ args.self.fun.kind = "Fungible"
    /\ args.self.fun.amount > 0
    /\ ret.val

\* C7: MultiAssetFilter::contains(inner) is true exactly when, for
\* Definite(assets), some element e of assets has e.contains(inner); for
\* Wild(All), always; for Wild(AllOf{id, fun}), inner.id = id and inner's
\* kind is fun.  AllOf{A, Fungible} contains {A, Fungible(1)} and does not
\* contain {A, NonFungible(Undefined)}.
C7_FilterContains ==
    ret.op = "filter_contains" =>
        LET f == args.self
            i == args.inner
        IN  /\ f.f = "Definite" =>
                (ret.val <=> \E k \in 1..Len(f.assets) :
                                MultiAsset_contains(f.assets[k], i))
            /\ (f.f = "Wild" /\ f.wild.w = "All") => ret.val
            /\ (f.f = "Wild" /\ f.wild.w = "AllOf") =>
                (ret.val <=> (i.id = f.wild.id /\ i.fun.kind = f.wild.fun))
            /\ (/\ f = Wild(AllOf(Abstract(<<1>>), WildFungible))
                /\ i = MultiAsset(Abstract(<<1>>), Fungible(1))) => ret.val
            /\ (/\ f = Wild(AllOf(Abstract(<<1>>), WildFungible))
                /\ i = MultiAsset(Abstract(<<1>>), NonFungible(Undefined)))
               => ~ret.val

\* C7's case: AllOf{A, Fungible} has been tested against a fungible of
\* another id and has refused it.
C7_Witness ==
    /\ ret.op = "filter_contains"
    /\ args.self = Wild(AllOf(Abstract(<<1>>), WildFungible))
    /\ args.inner = MultiAsset(Abstract(<<>>), Fungible(1))
    /\ ~ret.val

\* C8, as the specification states it: the zero/"none" asset (v0 None or a fungible of amount
\* 0; v1 a Fungible of amount 0) is contained by every container value,
\* v0 None and an empty v1 MultiAssets included.
C8_NoneIsContainedByEverything ==
    /\ (ret.op = "v0_contains"
        /\ (\/ args.inner.v = "None"
            \/ /\ args.inner.v \in {"AbstractFungible", "ConcreteFungible"}
               /\ args.inner.amount = 0)) => ret.val
    /\ (ret.op \in {"v1_contains", "assets_contains", "filter_contains"}
        /\ args.inner.fun = Fungible(0)) => ret.val

V0WildcardVariants ==
    {"All", "AllFungible", "AllNonFungible", "AllAbstractFungible",
     "AllAbstractNonFungible", "AllConcreteFungible", "AllConcreteNonFungible"}

\* C9: in v0 a wildcard is never contained by anything: for every self,
\* All and the wildcard itself included, and every wildcard inner,
\* self.contains(inner) is false.
C9_V0WildcardNeverContained ==
    (ret.op = "v0_contains" /\ args.inner.v \in V0WildcardVariants) => ~ret.val

\* C9's case: All has been tested against All.
C9_Witness ==
    /\ ret.op = "v0_contains"
    /\ args.self = V0All
    /\ args.inner = V0All
    /\ ~ret.val

\* What C10 says v0 contains is, for a definite inner that is not none.
C10_Expected(s, i) ==
    CASE s.v = "All" -> TRUE
      [] s.v = "None" -> FALSE
      [] s.v = "AllFungible" -> i.v \in {"AbstractFungible", "ConcreteFungible"}
      [] s.v = "AllNonFungible" ->
            i.v \in {"AbstractNonFungible", "ConcreteNonFungible"}
      [] s.v = "AllConcreteFungible" -> i.v = "ConcreteFungible" /\ i.id = s.id
      [] s.v = "AllAbstractFungible" -> i.v = "AbstractFungible" /\ i.id = s.id
      [] s.v = "AllConcreteNonFungible" ->
            i.v = "ConcreteNonFungible" /\ i.class = s.class
      [] s.v = "AllAbstractNonFungible" ->
            i.v = "AbstractNonFungible" /\ i.class = s.class
      [] s.v \in {"AbstractFungible", "ConcreteFungible"} ->
            /\ s.amount # 0
            /\ i.v = s.v
            /\ i.id = s.id
            /\ s.amount >= i.amount
      [] s.v \in {"AbstractNonFungible", "ConcreteNonFungible"} -> s = i

\* C10: in v0, for every inner that is neither a wildcard nor none,
\* self.contains(inner) is true for All, false for None and a zero-amount
\* fungible, for AllFungible / AllNonFungible true iff inner is of that
\* fungibility, for the four All..{id} wildcards true iff inner is the
\* definite variant of that concreteness and fungibility with that id, for
\* a definite fungible true iff inner is the same variant with the same id
\* and no larger amount, and for a definite non-fungible true iff equal.
C10_V0ContainsDefinite ==
    (/\ ret.op = "v0_contains"
     /\ args.inner.v \in {"AbstractFungible", "ConcreteFungible",
                          "AbstractNonFungible", "ConcreteNonFungible"}
     /\ (args.inner.v \in {"AbstractFungible", "ConcreteFungible"}
            => args.inner.amount # 0))
        => (ret.val <=> C10_Expected(args.self, args.inner))

\* C10's case: a wildcard of one concrete id has been tested against a
\* fungible of another concrete id and has refused it.
C10_Witness ==
    /\ ret.op = "v0_contains"
    /\ args.self = V0AllConcreteFungible(V0Null)
    /\ args.inner = V0ConcreteFungible(V0X1Parent, 1)
    /\ ~ret.val

(***************************************************************************)
(* The order of MultiAsset, checked under SpecCall, and push, checked      *)
(* under Spec.                                                             *)
(***************************************************************************)
\* C11: MultiAsset's cmp is a total order (total, antisymmetric,
\* transitive) in which every fungible is less than every non-fungible
\* whatever the ids, two assets of one kind compare lexicographically by
\* (id, fun), and cmp is Equal exactly when the two assets are equal.
C11_CmpIsTotalOrder ==
    ret.op = "cmp" =>
        LET a == args.a
            b == args.b
        IN  /\ ret.ab \in {Less, Equal, Greater}
            /\ ret.ab = 0 - ret.ba
            /\ (ret.ab # Greater /\ ret.bc # Greater) => ret.ac # Greater
            /\ (ret.ab = Less /\ ret.bc = Less) => ret.ac = Less
            /\ (a.fun.kind = "Fungible" /\ b.fun.kind = "NonFungible")
                => ret.ab = Less
            /\ a.fun.kind = b.fun.kind =>
                ret.ab = (IF CmpAssetId(a.id, b.id) # Equal
                          THEN CmpAssetId(a.id, b.id)
                          ELSE CmpFungibility(a.fun, b.fun))
            /\ (ret.ab = Equal) <=> (a = b)

\* C11's case: a non-fungible of the least id has been compared with a
\* fungible of the greatest id, and is Greater.
C11_Witness ==
    /\ ret.op = "cmp"
    /\ args.a = MultiAsset(Concrete(Here), NonFungible(Undefined))
    /\ args.b = MultiAsset(Abstract(<<1>>), Fungible(1))
    /\ ret.ab = Greater
    /\ ret.ba = Less

\* The number of entries of the vector s equal to x.
Count(s, x) == Cardinality({i \in 1..Len(s) : s[i] = x})

\* The fungible entries of s with the id of a.
FungibleHits(s, a) ==
    {i \in 1..Len(s) : s[i].id = a.id /\ s[i].fun.kind = "Fungible"}

\* C12: push(a), when a is fungible and the collection has a fungible entry
\* with a's id, gives that entry the saturating sum of the two amounts and
\* leaves the length, the order and every other entry as they were; in
\* every other case the length grows by one and the new vector is the
\* ascending sort of the old entries and a.
C12_Push ==
    ret.op = "push" =>
        LET old == ret.before
            a == ret.a
        IN  IF a.fun.kind = "Fungible" /\ FungibleHits(old, a) # {}
            THEN /\ Len(assets) = Len(old)
                 /\ \E i \in FungibleHits(old, a) :
                      /\ assets[i] = MultiAsset(a.id,
                            Fungible(Min(old[i].fun.amount + a.fun.amount,
                                         AmountMax)))
                      /\ \A j \in 1..Len(old) : j # i => assets[j] = old[j]
            ELSE /\ Len(assets) = Len(old) + 1
                 /\ \A x \in MultiAssetValues :
                      Count(assets, x) = Count(old, x) + (IF x = a THEN 1 ELSE 0)
                 /\ \A i \in 1..(Len(assets) - 1) :
                      MultiAsset_cmp(assets[i], assets[i + 1]) # Greater

\* C12's case: a fungible has been pushed onto a collection that holds a
\* fungible of its id behind another entry, and the sum has saturated.
C12_Witness ==
    /\ ret.op = "push"
    /\ ret.a.fun.kind = "Fungible"
    /\ Len(ret.before) = 2
    /\ FungibleHits(ret.before, ret.a) = {2}
    /\ ret.before[2].fun.amount + ret.a.fun.amount > AmountMax
    /\ assets = [ret.before EXCEPT ![2].fun.amount = AmountMax]

(***************************************************************************)
(* Properties of the conversions from v0, checked under SpecConvert.       *)
(***************************************************************************)
V0DefiniteVariants ==
    {"ConcreteFungible", "ConcreteNonFungible", "AbstractFungible",
     "AbstractNonFungible"}

V0WildVariants ==
    {"All", "AllConcreteFungible", "AllConcreteNonFungible",
     "AllAbstractFungible", "AllAbstractNonFungible"}

\* The id or class of a v0 value that has one.
V0IdOf(old) ==
    IF old.v \in {"ConcreteFungible", "AbstractFungible", "AllConcreteFungible",
                  "AllAbstractFungible"}
    THEN old.id ELSE old.class

\* The v1 id names what the v0 id named: the same bytes, or the same hops.
SameId(id, old) ==
    IF old.v \in {"AbstractFungible", "AbstractNonFungible",
                  "AllAbstractFungible", "AllAbstractNonFungible"}
    THEN id.kind = "Abstract" /\ id.bytes = V0IdOf(old).bytes
    ELSE /\ id.kind = "Concrete"
         /\ [i \in 1..id.loc.parents |-> V0Parent] \o id.loc.interior
                = V0IdOf(old).junctions

\* C13: a v0 MultiAsset converts to a v1 MultiAsset only if it is one of the
\* four definite variants, and then with its id and its amount or instance;
\* to a WildMultiAsset only if it is All or one of the four All* variants
\* with an id; AllFungible and AllNonFungible convert to neither; None
\* converts only to Option::None; no wildcard converts to a definite asset
\* and no definite asset to a wildcard.
C13_V0ConversionFailsClosed ==
    LET old == args.old
    IN  /\ (ret.op = "MultiAsset::try_from" /\ ret.res.ok) =>
            /\ old.v \in V0DefiniteVariants
            /\ ~v0_is_wildcard(old)
            /\ SameId(ret.res.val.id, old)
            /\ ret.res.val.fun =
                 (IF old.v \in {"ConcreteFungible", "AbstractFungible"}
                  THEN Fungible(old.amount) ELSE NonFungible(old.instance))
        /\ (ret.op = "WildMultiAsset::try_from" /\ ret.res.ok) =>
            /\ old.v \in V0WildVariants
            /\ v0_is_wildcard(old)
            /\ IF old.v = "All" THEN ret.res.val = WildAll
               ELSE /\ ret.res.val.w = "AllOf"
                    /\ SameId(ret.res.val.id, old)
                    /\ ret.res.val.fun =
                         (IF old.v \in {"AllConcreteFungible", "AllAbstractFungible"}
                          THEN WildFungible ELSE WildNonFungible)
        /\ (ret.op = "Option::try_from" /\ ret.res.ok) =>
            IF old.v = "None" THEN ret.res.val = None
            ELSE /\ old.v \in V0DefiniteVariants
                 /\ ret.res.val = Some(MultiAsset_try_from_v0(old).val)
        /\ (ret.op \in {"MultiAsset::try_from", "WildMultiAsset::try_from",
                        "Option::try_from"}
              /\ old.v \in {"AllFungible", "AllNonFungible"}) => ~ret.res.ok
        /\ (ret.op \in {"MultiAsset::try_from", "WildMultiAsset::try_from"}
              /\ old.v = "None") => ~ret.res.ok

\* C13's case: AllFungible has been offered to the wildcard conversion and
\* refused.
C13_Witness ==
    /\ ret.op = "WildMultiAsset::try_from"
    /\ args.old = V0AllFungible
    /\ ret.res = Err

\* C14: a Vec<v0::MultiAsset> converts to one v1 MultiAsset, or to one
\* WildMultiAsset, only when it has exactly one element and that element
\* converts; the empty list and a list of two or more give Err.
C14_V0VecConversion ==
    LET old == args.old.vec
    IN  /\ ret.op = "MultiAsset::try_from(Vec)" =>
            /\ ret.res.ok =>
                (Len(old) = 1 /\ ret.res = MultiAsset_try_from_v0(old[1]))
            /\ Len(old) # 1 => ret.res = Err
        /\ ret.op = "WildMultiAsset::try_from(Vec)" =>
            /\ ret.res.ok =>
                (Len(old) = 1 /\ ret.res = WildMultiAsset_try_from_v0(old[1]))
            /\ Len(old) # 1 => ret.res = Err

\* C14's case: a list of two definite assets, each of which converts alone,
\* has been refused.
C14_Witness ==
    /\ ret.op = "MultiAsset::try_from(Vec)"
    /\ Len(args.old.vec) = 2
    /\ \A i \in 1..2 : MultiAsset_try_from_v0(args.old.vec[i]).ok
    /\ ret.res = Err

(***************************************************************************)
(* Properties of prepend_with and reanchor, checked under SpecAnchor.      *)
(***************************************************************************)
\* C15: MultiAssets::reanchor and MultiAssets::prepend_with return Err as
\* soon as the rewrite of any element fails, and when they return Err the
\* collection is equal to its value before the call.
C15_RewriteIsAllOrNothing ==
    ret.op \in {"prepend_with", "reanchor"} =>
        LET res == [i \in 1..Len(ret.before) |->
                      IF ret.op = "prepend_with"
                      THEN MultiAsset_prepend_with(ret.before[i], ret.prefix)
                      ELSE MultiAsset_reanchor(ret.before[i], ret.target,
                                               ret.ancestry)]
        IN  /\ ret.ok <=> \A i \in 1..Len(ret.before) : res[i].ok
            /\ ~ret.ok => assets = ret.before


\* C16: prepend_with and reanchor on an Abstract id, and reanchor on the
\* wildcard All, return Ok and leave the value as it was; on a Concrete id
\* the result, Ok or Err, is that of the MultiLocation operation on its
\* location; the fungibility of the enclosing asset or wildcard is never
\* changed.
C16_RewriteTouchesOnlyConcreteIds ==
    LET self == args.self
        loc == IF ret.op = "MultiAsset::prepend_with"
               THEN MultiLocation_prepend_with(self.id.loc, args.target)
               ELSE MultiLocation_reanchor(self.id.loc, args.target, args.ancestry)
    IN  /\ ret.op \in {"MultiAsset::prepend_with", "MultiAsset::reanchor"} =>
            /\ ret.res.val.fun = self.fun
            /\ self.id.kind = "Abstract" => ret.res = Res(TRUE, self)
            /\ self.id.kind = "Concrete" =>
                /\ ret.res.ok = loc.ok
                /\ ret.res.val.id = Concrete(loc.val)
        /\ ret.op = "WildMultiAsset::reanchor" =>
            /\ self = WildAll => ret.res = Res(TRUE, self)
            /\ self # WildAll =>
                /\ ret.res.val.w = "AllOf"
                /\ ret.res.val.fun = self.fun
                /\ self.id.kind = "Abstract" => ret.res = Res(TRUE, self)
                /\ self.id.kind = "Concrete" =>
                    /\ ret.res.ok = loc.ok
                    /\ ret.res.val.id = Concrete(loc.val)

\* C16's case: an asset with an abstract id has been reanchored to a target
\* for which the reanchoring of a location under the same ancestry fails.
C16_Witness ==
    /\ ret.op = "MultiAsset::reanchor"
    /\ args.self.id.kind = "Abstract"
    /\ ~MultiLocation_reanchor(Here, args.target, args.ancestry).ok
    /\ ret.res = Res(TRUE, args.self)

\* Two locations name the same place when read in the context at ancestry.
Equivalent(l, m, ancestry) ==
    /\ MultiLocation_prepend_with(l, ancestry).ok
    /\ MultiLocation_prepend_with(m, ancestry).ok
    /\ MultiLocation_prepend_with(l, ancestry).val
         = MultiLocation_prepend_with(m, ancestry).val

\* C20: whenever loc.reanchor(target, ancestry) succeeds, reanchoring the
\* result back from the target's context to the original one, with target
\* and ancestry exchanged, succeeds and gives a location equivalent to loc.
C20_ReanchorRoundTrip ==
    ret.op = "MultiLocation::reanchor back" =>
        /\ ret.res.ok
        /\ Equivalent(ret.res.val, args.self, args.ancestry)

\* C20's case: a location has been reanchored to a target off its own path,
\* which cost a hop up, and has come back in another form than it had.
C20_Witness ==
    /\ ret.op = "MultiLocation::reanchor back"
    /\ ret.there.parents > 0
    /\ ret.there # args.self
    /\ ret.res.ok
    /\ ret.res.val # args.self
    /\ Equivalent(ret.res.val, args.self, args.ancestry)


(***************************************************************************)
(* Properties of the trap and claim handlers, checked under SpecTrap.      *)
(***************************************************************************)
\* The handler at the core of a nest of filters.
RECURSIVE Innermost(_)
Innermost(D) == IF D.h \in {"()", "Trap"} THEN D ELSE Innermost(D.d)

\* Every filter of the nest lets the call through.
RECURSIVE AllFiltersHold(_, _, _)
AllFiltersHold(D, origin, dropped) ==
    CASE D.h \in {"()", "Trap"} -> TRUE
      [] D.h = "FilterAssets" ->
            dropped \in D.contains /\ AllFiltersHold(D.d, origin, dropped)
      [] D.h = "FilterOrigin" ->
            origin \in D.contains /\ AllFiltersHold(D.d, origin, dropped)

\* C17: the handler () returns 0; FilterAssets<D, A> calls D exactly once,
\* with the same origin and assets, and returns D's weight when A contains
\* the assets, and otherwise returns 0 without calling D; FilterOrigin<D, O>
\* does the same on the origin; in any nest the innermost handler runs only
\* when every filter's predicate holds.
C17_TrapFilters ==
    ret.op = "drop_assets" =>
        LET self == args.self
            calls == ret.res.calls
            passes == IF self.h = "FilterAssets"
                      THEN args.assets \in self.contains
                      ELSE args.origin \in self.contains
            inner == Innermost(self)
            reached == \E k \in 1..Len(calls) : calls[k].h = inner
        IN  /\ self = Unit => ret.res = Dropped(0, <<>>)
            /\ (self.h \in {"FilterAssets", "FilterOrigin"} /\ passes) =>
                /\ Len(calls) >= 1
                /\ calls[1] = DropCall(self.d, args.origin, args.assets)
                /\ Cardinality({k \in 1..Len(calls) : calls[k].h = self.d}) = 1
                /\ ret.res.weight =
                     drop_assets(self.d, args.origin, args.assets).weight
            /\ (self.h \in {"FilterAssets", "FilterOrigin"} /\ ~passes) =>
                ret.res = Dropped(0, <<>>)
            /\ self.h \in {"FilterAssets", "FilterOrigin"} =>
                /\ reached <=> AllFiltersHold(self, args.origin, args.assets)
                /\ ret.res.weight =
                     (IF reached /\ inner.h = "Trap" THEN inner.weight ELSE 0)

\* C17's case: two filters around the host's trap, the outer one passing
\* and the inner one not: the inner filter was called, the trap was not,
\* and nothing is charged.
C17_Witness ==
    /\ ret.op = "drop_assets"
    /\ args.self.h = "FilterOrigin"
    /\ args.self.d.h = "FilterAssets"
    /\ args.self.d.d = Trap(1)
    /\ args.origin \in args.self.contains
    /\ args.assets \notin args.self.d.contains
    /\ ret.res = Dropped(0, <<DropCall(args.self.d, args.origin, args.assets)>>)

\* C18: a tuple of claim handlers asks its members in tuple order, each with
\* the same origin, ticket and what; it returns true as soon as a member
\* does, asking no later member, and returns false exactly when every
\* member has been asked once and has returned false.
C18_ClaimTuple ==
    ret.op = "claim_assets" =>
        LET t == args.self.members
            calls == ret.res.calls
            n == Len(calls)
        IN  /\ n <= Len(t)
            /\ \A k \in 1..n :
                 calls[k] = ClaimCall(k, args.origin, args.ticket, args.what,
                               member_claim_assets(t[k], args.origin,
                                                   args.ticket, args.what))
            /\ \A k \in 1..(n - 1) : ~calls[k].val
            /\ ret.res.val => (n >= 1 /\ calls[n].val)
            /\ ~ret.res.val <=>
                 (n = Len(t) /\ \A k \in 1..n : ~calls[k].val)

\* C18's case: the second of three members claimed; the third, which would
\* have claimed too, was not asked.
C18_Witness ==
    /\ ret.op = "claim_assets"
    /\ Len(args.self.members) = 3
    /\ member_claim_assets(args.self.members[3], args.origin, args.ticket,
                           args.what)
    /\ ret.res.val
    /\ Len(ret.res.calls) = 2
    /\ ~ret.res.calls[1].val


(***************************************************************************)
(* Properties of the conversion of a v1 message to v0, checked under       *)
(* SpecConvert.                                                            *)
(***************************************************************************)
AssetsFail(a) == \E i \in 1..Len(a) : ~V0MultiAsset_try_from(a[i]).ok
EffectsFail(e) == \E i \in 1..Len(e) : ~V0Order_try_from(e[i]).ok
LocationFails(l) == ~V0MultiLocation_try_from(l).ok

\* Some part of the v1 message x, at any depth, has no v0 form.
RECURSIVE FailsSomewhere(_)
FailsSomewhere(x) ==
    CASE x.x \in {"SubscribeVersion", "UnsubscribeVersion"} -> TRUE
      [] x.x = "QueryResponse" ->
            x.response.r = "Version" \/ AssetsFail(x.response.assets)
      [] x.x \in {"WithdrawAsset", "ReserveAssetDeposited",
                  "ReceiveTeleportedAsset"} ->
            AssetsFail(x.assets) \/ EffectsFail(x.effects)
      [] x.x = "TransferAsset" ->
            AssetsFail(x.assets) \/ LocationFails(x.beneficiary)
      [] x.x = "TransferReserveAsset" ->
            AssetsFail(x.assets) \/ LocationFails(x.dest) \/ EffectsFail(x.effects)
      [] x.x = "RelayedFrom" ->
            LocationFails(MultiLocation(0, x.who)) \/ FailsSomewhere(x.message)
      [] OTHER -> FALSE

\* The v0 message old is the v1 message x, variant for variant and field
\* for converted field.
RECURSIVE Corresponds(_, _)
Corresponds(old, x) ==
    /\ old.x = V0VariantOf(x.x)
    /\ CASE x.x \in {"WithdrawAsset", "ReserveAssetDeposited",
                     "ReceiveTeleportedAsset"} ->
                /\ old.assets = [i \in 1..Len(x.assets) |->
                                   V0MultiAsset_try_from(x.assets[i]).val]
                /\ old.effects = [i \in 1..Len(x.effects) |->
                                    V0Order_try_from(x.effects[i]).val]
         [] x.x = "QueryResponse" ->
                /\ old.query_id = x.query_id
                /\ old.response.r = "Assets"
                /\ old.response.assets =
                     [i \in 1..Len(x.response.assets) |->
                        V0MultiAsset_try_from(x.response.assets[i]).val]
         [] x.x = "TransferAsset" ->
                /\ old.assets = [i \in 1..Len(x.assets) |->
                                   V0MultiAsset_try_from(x.assets[i]).val]
                /\ old.dest = V0MultiLocation_try_from(x.beneficiary).val
         [] x.x = "TransferReserveAsset" ->
                /\ old.assets = [i \in 1..Len(x.assets) |->
                                   V0MultiAsset_try_from(x.assets[i]).val]
                /\ old.dest = V0MultiLocation_try_from(x.dest).val
                /\ old.effects = [i \in 1..Len(x.effects) |->
                                    V0Order_try_from(x.effects[i]).val]
         [] x.x = "RelayedFrom" ->
                /\ old.who.junctions = x.who
                /\ Corresponds(old.message, x.message)
         [] OTHER -> old = x

\* C19: the conversion of a v1 message to v0 returns Err when the message is
\* SubscribeVersion or UnsubscribeVersion, when it is a QueryResponse with a
\* Version response, and when a nested asset list, location, order or, at
\* any depth of RelayedFrom, inner message does not convert; when it returns
\* Ok, the v0 message is the corresponding variant with every field
\* converted.
C19_XcmDowngradeFailsClosed ==
    ret.op = "v0::Xcm::try_from" =>
        /\ FailsSomewhere(args.old) => ret.res = Err
        /\ ret.res.ok =>
            /\ ~FailsSomewhere(args.old)
            /\ Corresponds(ret.res.val, args.old)

\* C19's case: a message relayed twice whose innermost message holds an
\* order that does not convert has been refused.
C19_Witness ==
    /\ ret.op = "v0::Xcm::try_from"
    /\ args.old.x = "RelayedFrom"
    /\ args.old.message.x = "RelayedFrom"
    /\ args.old.message.message.x = "WithdrawAsset"
    /\ ~AssetsFail(args.old.message.message.assets)
    /\ EffectsFail(args.old.message.message.effects)
    /\ ~LocationFails(MultiLocation(0, args.old.who))
    /\ ~LocationFails(MultiLocation(0, args.old.message.who))
    /\ ret.res = Err


(***************************************************************************)
(* Properties of the junctions, checked under SpecJunction.                *)
(***************************************************************************)
\* C21: for a v0 junction is_interior() is false only for Parent and true
\* for every other variant, and is_parent() is its negation; the conversion
\* of a v1 junction never gives Parent, so every converted junction is
\* interior, and distinct v1 junctions convert to distinct v0 junctions.
C21_JunctionInterior ==
    /\ ret.op = "is_interior" => (ret.val <=> args.self # V0Parent)
    /\ ret.op = "is_parent" =>
         /\ ret.val <=> args.self = V0Parent
         /\ ret.val = ~is_interior(args.self)
    /\ ret.op = "Junction::from" =>
         /\ ret.a # V0Parent /\ ret.b # V0Parent
         /\ is_interior(ret.a) /\ ~is_parent(ret.a)
         /\ ret.a.tag = args.a.tag
         /\ args.a # args.b => ret.a # ret.b

\* C21's case: a pallet instance and the general index of the same number
\* have been converted, to two interior junctions that differ.
C21_Witness ==
    /\ ret.op = "Junction::from"
    /\ args.a = PalletInstance(1)
    /\ args.b = GeneralIndex(1)
    /\ ret.a # ret.b
    /\ is_interior(ret.a) /\ is_interior(ret.b)

\* C22: is_majority returns true exactly when the part is a strict majority,
\* for every nom and denom of a u32: Fraction and AtLeastProportion iff
\* 2 * nom > denom, MoreThanProportion iff 2 * nom >= denom, Voice and
\* Members never, with 2 * nom the product of integers: no wrap-around and
\* no panic when it does not fit the u32.
C22_IsMajority ==
    ret.op = "is_majority" =>
        LET p == args.self
        IN  ret.res =
              Returns(CASE p.part \in {"Fraction", "AtLeastProportion"} ->
                          2 * p.nom > p.denom
                        [] p.part = "MoreThanProportion" -> 2 * p.nom >= p.denom
                        [] OTHER -> FALSE)


(***************************************************************************)
(* Properties of the conversions of a v0 list, checked under SpecConvert.  *)
(***************************************************************************)
\* A collection in its normal form: strictly ascending, and no two
\* fungible entries of one id.
Normalized(s) ==
    \A i, j \in 1..Len(s) :
        i < j =>
            /\ MultiAsset_cmp(s[i], s[j]) = Less
            /\ ~(s[i].fun.kind = "Fungible" /\ s[j].fun.kind = "Fungible"
                 /\ s[i].id = s[j].id)

HasWildcard(old) == \E i \in 1..Len(old) : v0_is_wildcard(old[i])

\* The elements of a v0 list that are not None.
WithoutNone(old) == SelectSeq(old, LAMBDA e : e # V0None)

\* Every element that is not None has a v1 definite equivalent.
AllConvert(old) ==
    \A i \in 1..Len(old) :
        old[i] # V0None => MultiAsset_try_from_v0(old[i]).ok

\* The v1 equivalents of the elements that are not None, in their order.
ConvertedList(old) ==
    LET d == WithoutNone(old)
    IN  [i \in 1..Len(d) |-> MultiAsset_try_from_v0(d[i]).val]

\* C23: converting a v0 list to a MultiAssetFilter, a list of exactly one
\* wildcard gives Wild(w) when the wildcard has a v1 equivalent and Err
\* otherwise; any other list gives Err when it holds a wildcard or an
\* element without a v1 equivalent, and otherwise Definite of the
\* normalized collection of the converted elements; the empty list gives
\* Definite of the empty collection.
C23_FilterFromV0Vec ==
    ret.op = "MultiAssetFilter::try_from(Vec)" =>
        LET old == args.old.vec
        IN  IF Len(old) = 1 /\ v0_is_wildcard(old[1])
            THEN LET w == WildMultiAsset_try_from_v0(old[1])
                 IN  ret.res = IF w.ok THEN Ok(Wild(w.val)) ELSE Err
            ELSE IF HasWildcard(old) \/ ~AllConvert(old)
            THEN ret.res = Err
            ELSE /\ ret.res = Ok(Definite(MultiAssets_from(ConvertedList(old))))
                 /\ Normalized(ret.res.val.assets)
                 /\ old = <<>> => ret.res = Ok(Definite(<<>>))

\* C23's case: a list of two definite elements, out of order, has become a
\* Definite filter of the two in order.
C23_Witness ==
    /\ ret.op = "MultiAssetFilter::try_from(Vec)"
    /\ Len(args.old.vec) = 2
    /\ ret.res.ok
    /\ ret.res.val.f = "Definite"
    /\ Len(ret.res.val.assets) = 2
    /\ ret.res.val.assets # ConvertedList(args.old.vec)

\* C23 as stated: every list that is not one wildcard and holds no
\* wildcard gives a Definite filter.
C23_DefiniteWheneverNoWildcard ==
    ret.op = "MultiAssetFilter::try_from(Vec)" =>
        LET old == args.old.vec
        IN  ~HasWildcard(old) => ret.res.ok /\ ret.res.val.f = "Definite"

\* C24: converting a v0 list to MultiAssets drops every None, gives Err for
\* the whole list when an element is a wildcard or has no v1 equivalent,
\* and otherwise gives MultiAssets::from of the converted elements: a
\* sorted collection with the fungible amounts of one id merged.
C24_MultiAssetsFromV0Vec ==
    ret.op = "MultiAssets::try_from(Vec)" =>
        LET old == args.old.vec
        IN  IF HasWildcard(old) \/ ~AllConvert(old)
            THEN ret.res = Err
            ELSE /\ ret.res = Ok(MultiAssets_from(ConvertedList(old)))
                 /\ Normalized(ret.res.val)
                 /\ Len(ret.res.val) <= Len(WithoutNone(old))

\* C24's case: a list repeating one fungible id has become a collection of
\* one entry.
C24_Witness ==
    /\ ret.op = "MultiAssets::try_from(Vec)"
    /\ Len(args.old.vec) = 2
    /\ args.old.vec[1] = args.old.vec[2]
    /\ args.old.vec[1].v = "AbstractFungible"
    /\ ret.res.ok
    /\ Len(ret.res.val) = 1

\* C24 as stated: every list without a wildcard converts.
C24_OkWheneverNoWildcard ==
    ret.op = "MultiAssets::try_from(Vec)" =>
        (~HasWildcard(args.old.vec) => ret.res.ok)


(***************************************************************************)
(* Properties of the collection over its life, checked under SpecPush and  *)
(* Spec.                                                                   *)
(***************************************************************************)
\* C25: starting from new() or from(v), after any sequence of pushes the
\* collection is in its normal form: from_sorted_and_deduplicated accepts
\* its vector, it is ascending with the fungibles first, and it holds no
\* two fungible entries of one id and no two equal non-fungible entries.
C25_PushKeepsNormalForm ==
    /\ from_sorted_and_deduplicated(assets).ok
    /\ Normalized(assets)


\* C26: when prepend_with or reanchor of a normalized collection returns
\* Ok, the rewritten collection is in its normal form: ascending, and no
\* two fungible entries with the same rewritten id.
C26_RewriteKeepsNormalForm ==
    (ret.op \in {"prepend_with", "reanchor"} /\ Normalized(ret.before) /\ ret.ok)
        => Normalized(assets)


\* C27: containment is not lost: MultiAssets::from(v) contains every
\* element of v, also when the merged amount saturates; after m.push(a)
\* the collection contains a and every asset it contained before.
C27_ContainmentIsKept ==
    /\ ret.op = "from" =>
         \A i \in 1..Len(ret.input) : MultiAssets_contains(assets, ret.input[i])
    /\ ret.op = "push" =>
         /\ MultiAssets_contains(assets, ret.a)
         /\ \A y \in MultiAssetValues :
              MultiAssets_contains(ret.before, y) => MultiAssets_contains(assets, y)

\* C27's case: a fungible of the largest amount has been pushed onto a
\* collection that holds a fungible of its id, and the sum has saturated.
C27_Witness ==
    /\ ret.op = "push"
    /\ ret.a.fun = Fungible(AmountMax)
    /\ \E i \in 1..Len(ret.before) :
         /\ ret.before[i].id = ret.a.id
         /\ ret.before[i].fun.kind = "Fungible"
         /\ ret.before[i].fun.amount > 0
    /\ Len(assets) = Len(ret.before)
    /\ MultiAssets_contains(assets, ret.a)

\* The vectors that hold the elements of v in any order.
Reorderings(v) ==
    {[i \in 1..Len(v) |-> v[f[i]]] :
        f \in {g \in [1..Len(v) -> 1..Len(v)] :
                 \A i, j \in 1..Len(v) : g[i] = g[j] => i = j}}

\* C28: MultiAssets::from is canonical, from(p) = from(v) for every
\* permutation p of v, and idempotent, from(from(v).drain()) = from(v).
C28_FromIsCanonical ==
    ret.op = "from" =>
        /\ \A p \in Reorderings(ret.input) : MultiAssets_from(p) = assets
        /\ MultiAssets_from(assets) = assets

\* C28's case: from() of a vector of three different assets whose normal
\* form has another order and fewer entries.
C28_Witness ==
    /\ ret.op = "from"
    /\ Len(ret.input) = 3
    /\ Cardinality(Reorderings(ret.input)) = 6
    /\ Len(assets) = 2
    /\ assets[1] # ret.input[1]
    /\ MultiAssets_from(assets) = assets


(***************************************************************************)
(* Properties that relate the two generations, checked under SpecConvert.  *)
(***************************************************************************)
\* A definite v0 asset with an abstract id: a fungible of a non-zero
\* amount, or a non-fungible.
V0AbstractDefinite(a) ==
    \/ a.v = "AbstractFungible" /\ a.amount > 0
    \/ a.v = "AbstractNonFungible"

\* C29: for every pair of definite v0 assets a, b with abstract ids
\* (fungibles of non-zero amount, or non-fungibles), both convert to v1 and
\* v0 a.contains(b) equals v1 a'.contains(b') of the conversions.
C29_ContainsAgrees ==
    (/\ ret.op = "contains(v0, v1)"
     /\ V0AbstractDefinite(args.self)
     /\ V0AbstractDefinite(args.inner))
        => ret.converted /\ ret.v0 = ret.v1

\* C29's case: two fungibles of one abstract id, the first of the larger
\* amount, have been compared in both generations, which both say yes.
C29_Witness ==
    /\ ret.op = "contains(v0, v1)"
    /\ args.self.v = "AbstractFungible"
    /\ args.inner.v = "AbstractFungible"
    /\ args.self.id = args.inner.id
    /\ args.self.amount > args.inner.amount
    /\ args.inner.amount > 0
    /\ ret.v0 /\ ret.v1


\* The ids of a filter are all abstract.
AbstractFilter(f) ==
    IF f.f = "Definite"
    THEN \A i \in 1..Len(f.assets) : f.assets[i].id.kind = "Abstract"
    ELSE f.wild.w = "All" \/ f.wild.id.kind = "Abstract"

\* C30: for every v1 filter whose ids are abstract, a Definite of a
\* normalized collection or a Wild, the conversion to a v0 list succeeds, a
\* Wild filter gives a list of exactly one wildcard, and the conversion of
\* the list back to a filter succeeds and gives the filter again.
C30_FilterRoundTrip ==
    (/\ ret.op = "Vec::try_from(filter)"
     /\ AbstractFilter(args.new)
     /\ args.new.f = "Definite" => Normalized(args.new.assets))
        => /\ ret.down.ok
           /\ args.new.f = "Wild" =>
                /\ Len(ret.down.val.vec) = 1
                /\ v0_is_wildcard(ret.down.val.vec[1])
           /\ args.new.f = "Definite" =>
                /\ Len(ret.down.val.vec) = Len(args.new.assets)
                /\ ~HasWildcard(ret.down.val.vec)
           /\ ret.up = Ok(args.new)

\* C30's case: the Wild filter of the fungibles of one abstract id has gone
\* to a v0 list of one wildcard and come back.
C30_Witness ==
    /\ ret.op = "Vec::try_from(filter)"
    /\ args.new = Wild(AllOf(Abstract(<<1>>), WildFungible))
    /\ ret.down = Ok([vec |-> <<V0AllAbstractFungible([bytes |-> <<1>>])>>])
    /\ ret.up = Ok(args.new)

====
